---- MODULE Spec2Model ----
(***************************************************************************)
(* Delegation core of storo/lattice: the execution context (call chain and *)
(* hop count), the cycle/hop guard, the balancers, the injector's          *)
(* delegation tool, the agent's reasoning loop and the Mesh facade.        *)
(*                                                                         *)
(* The specifications share the variables:                                 *)
(*   SpecGuard - the context helpers and the guard applied to every        *)
(*              context one holder can build;                              *)
(*   SpecCtx  - contexts extended by concurrent holders that branch from   *)
(*              common ancestors;                                          *)
(*   Spec     - a Mesh with registered agents, driven by a client that     *)
(*              registers, prepares and runs agents; SpecLive is Spec with *)
(*              the fairness of a running goroutine.                       *)
(***************************************************************************)
EXTENDS Integers, Sequences, FiniteSets, TLC

(***************************************************************************)
(* Bounds of the model.                                                    *)
(***************************************************************************)
\* backing arrays that can be live at once
MaxArrays == 7
\* longest call chain a context holder of SpecCtx builds
MaxChainLen == 4
\* most capabilities an agent handed to InjectTools declares in Needs
MaxNeeds == 2
\* largest maxHops a mesh of the model is configured with
MaxHopsOpt == 2
\* tool calls one Agent.Run issues (the reasoning loop is finite)
MaxToolCalls == 1
\* delegation tools one agent accumulates
MaxTools == 1
\* tools an agent may accumulate when the client also takes agents out of the
\* registry
MaxAttached == 2

(***************************************************************************)
(* Program constants.                                                      *)
(***************************************************************************)
DefaultMaxHops == 10

ErrCycleDetected == "execution cycle detected"
ErrMaxHopsExceeded == "maximum hop count exceeded"
ErrAgentNotFound == "agent not found"
ErrNoProvider == "no provider configured"
\* error == nil
NoErr == "nil"

(***************************************************************************)
(* Fixtures: the agents of the model and what they declare.                *)
(***************************************************************************)
Agents == {"A", "B", "C"}
Workers == {1, 2}
Addrs == 1..MaxArrays

VARIABLES
    heap,       \* backing arrays of the []string call chains, by address
    maxHops,    \* CycleDetector.maxHops
    cur,        \* the context each holder has in hand
    exp,        \* the chain and hops each holder built, by value
    lastCheck,  \* input and result of the last Check call
    registry,   \* registry.Local.agents: the agent registered under each ID
    tools,      \* Agent.tools of every agent: its delegation tools, in order
    balancer,   \* the Balancer the mesh was built with
    counter,    \* RoundRobinBalancer.counter
    stack,      \* the Agent.Run calls in progress, outermost first
    outcome,    \* what the last top-level call returned
    delivered,  \* the tool message the last step appended, if it did
    lastOp,     \* the last call on the registry or the injector, with its result
    latest,     \* per ID, the agent of the latest Register not yet deregistered
    mu,         \* the mutexes: Mesh.mu, Local.mu and Agent.mu, with their holders
    procs       \* the goroutines that are inside a call, each with its position

ctxVars == <<cur, exp, lastCheck>>
meshVars == <<registry, tools, balancer, counter, stack, outcome, delivered>>
regVars == <<lastOp, latest>>
concVars == <<mu, procs>>
vars == <<heap, maxHops, cur, exp, lastCheck,
          registry, tools, balancer, counter, stack, outcome, delivered,
          lastOp, latest, mu, procs>>

(***************************************************************************)
(* pkg/core/context.go                                                     *)
(* A context is an immutable chain of values; the call-chain value is a    *)
(* slice (address of its backing array, length), the hop-count value an    *)
(* int.  arr = 0 and hops = <<>> stand for "no value under that key".      *)
(***************************************************************************)
Background == [arr |-> 0, len |-> 0, hops |-> <<>>, trace |-> ""]

\* core.TraceID(ctx): "" when no trace ID is set
TraceID(ctx) == ctx.trace

\* core.WithTraceID(ctx, traceID)
WithTraceID(ctx, traceID) == [ctx EXCEPT !.trace = traceID]

CallChain(h, ctx) ==
    IF ctx.arr = 0 THEN <<>> ELSE SubSeq(h[ctx.arr], 1, ctx.len)

FreeAddrs(h) == {a \in Addrs : h[a] = <<>>}

\* make([]string, n): a fresh zeroed array at the lowest free address
Alloc(h) ==
    LET free == FreeAddrs(h)
    IN  CHOOSE a \in free : \A b \in free : a <= b

\* Go's append: writes in place when the backing array has room
AppendCallChain(h, ctx, agentID) ==
    LET cap == IF ctx.arr = 0 THEN 0 ELSE Len(h[ctx.arr])
        newCap == IF cap = 0 THEN 1 ELSE 2 * cap
        chain == CallChain(h, ctx)
        a == Alloc(h)
    IN  IF ctx.len < cap
        THEN [heap |-> [h EXCEPT ![ctx.arr][ctx.len + 1] = agentID],
              ctx |-> [ctx EXCEPT !.len = ctx.len + 1]]
        ELSE [heap |-> [h EXCEPT ![a] =
                          [i \in 1..newCap |->
                              IF i <= Len(chain) THEN chain[i]
                              ELSE IF i = Len(chain) + 1 THEN agentID ELSE ""]],
              ctx |-> [ctx EXCEPT !.arr = a, !.len = ctx.len + 1]]

WithCallChain(h, ctx, agentID) ==
    LET chain == CallChain(h, ctx)
        a == Alloc(h)
        \* make, copy, newChain[len(chain)] = agentID
        newChain == [i \in 1..(Len(chain) + 1) |->
                        IF i <= Len(chain) THEN chain[i] ELSE agentID]
    IN  [heap |-> [h EXCEPT ![a] = newChain],
         ctx |-> [ctx EXCEPT !.arr = a, !.len = Len(newChain)]]

\* the range loop compares only the last element
InCallChainLast(h, ctx, agentID) ==
    LET chain == CallChain(h, ctx)
    IN  Len(chain) > 0 /\ chain[Len(chain)] = agentID

InCallChain(h, ctx, agentID) ==
    LET chain == CallChain(h, ctx)
    IN  \E i \in 1..Len(chain) : chain[i] = agentID

HopCount(ctx) == IF ctx.hops = <<>> THEN 0 ELSE ctx.hops[1]

WithHopCount(ctx) == [ctx EXCEPT !.hops = <<HopCount(ctx) + 1>>]

(***************************************************************************)
(* pkg/mesh/cycle.go                                                       *)
(***************************************************************************)
\* a constructor that lets zero through
NewCycleDetectorZero(n) == IF n < 0 THEN DefaultMaxHops ELSE n

NewCycleDetector(n) == IF n <= 0 THEN DefaultMaxHops ELSE n

\* a guard that lets every delegation through
CheckNever(h, ctx, agentID) == NoErr

\* the hop test written with > instead of >=
CheckOffByOne(h, ctx, agentID) ==
    IF InCallChain(h, ctx, agentID) THEN ErrCycleDetected
    ELSE IF HopCount(ctx) > maxHops THEN ErrMaxHopsExceeded
    ELSE NoErr

\* the hop test evaluated before the cycle test
CheckHopsFirst(h, ctx, agentID) ==
    IF HopCount(ctx) >= maxHops THEN ErrMaxHopsExceeded
    ELSE IF InCallChain(h, ctx, agentID) THEN ErrCycleDetected
    ELSE NoErr

Check(h, ctx, agentID) ==
    IF InCallChain(h, ctx, agentID) THEN ErrCycleDetected
    ELSE IF HopCount(ctx) >= maxHops THEN ErrMaxHopsExceeded
    ELSE NoErr

PrepareContext(h, ctx, agentID) ==
    LET r == WithCallChain(h, ctx, agentID)
    IN  [heap |-> r.heap, ctx |-> WithHopCount(r.ctx)]

(***************************************************************************)
(* The garbage collector: an array no context refers to is freed.          *)
(***************************************************************************)
Collect(h, roots) == [a \in Addrs |-> IF a \in roots THEN h[a] ELSE <<>>]

CtxRoots(c) == {c[w].arr : w \in Workers} \ {0}

(***************************************************************************)
(* Holders of contexts apply the helpers and the guard.  SpecGuard: one    *)
(* holder builds every chain and hop count and asks the guard.  SpecCtx:   *)
(* two holders extend contexts that branch from a common ancestor.         *)
(***************************************************************************)
CtxIDs == {"A", "B"}

NoCheck == [op |-> "none", chain |-> <<>>, hops |-> 0, id |-> "", err |-> NoErr]

NoOutcome ==
    [status |-> "none", err |-> NoErr, chain |-> <<>>, delegErr |-> "", trace |-> ""]

NoMessage == [agent |-> "", isError |-> FALSE, content |-> ""]

\* a nil core.Agent
NilAgent == ""

\* agents: make(map[string]core.Agent)
NewLocal == [id \in {} |-> NilAgent]

\* the IDs and capabilities of the registry's own agents
RegIDs == {"X", "Y"}

RegCaps == {"research", "Research", "research2"}

NoOp ==
    [op |-> "", id |-> "", agent |-> NilAgent, err |-> NoErr, cap |-> "",
     needs |-> <<>>, found |-> [c \in RegCaps |-> <<>>], result |-> <<>>,
     args |-> <<>>, rejects |-> {}, before |-> NewLocal, trace |-> ""]

NoEntry == [agent |-> NilAgent, updated |-> FALSE]

\* the zero sync.RWMutex or sync.Mutex: no writer (goroutines are numbered
\* from 1), no reader
NewMutex == [writer |-> 0, readers |-> {}]

\* the mutexes of a new Mesh over a new Local, and of the agents
NoLocks ==
    [mesh |-> NewMutex, registry |-> NewMutex, agent |-> [a \in Agents |-> NewMutex]]

\* no goroutine is inside a call
NoProcs == <<>>

\* registry.NewLocal(), no tool injected, no call made
InitMesh ==
    /\ registry = NewLocal
    /\ tools = [a \in Agents |-> <<>>]
    /\ counter = 0
    /\ stack = <<>>
    /\ outcome = NoOutcome
    /\ delivered = NoMessage
    /\ lastOp = NoOp
    /\ latest = [id \in RegIDs |-> NoEntry]
    /\ mu = NoLocks
    /\ procs = NoProcs

InitCtx ==
    /\ heap = [a \in Addrs |-> <<>>]
    /\ cur = [w \in Workers |-> Background]
    /\ exp = [w \in Workers |-> [chain |-> <<>>, hops |-> 0]]
    /\ lastCheck = NoCheck
    /\ InitMesh
    /\ balancer = "roundrobin"

\* ctx = core.WithCallChain(ctx, id), as Agent.Run does
CtxWithCallChain(w, id) ==
    /\ cur[w].len < MaxChainLen
    /\ FreeAddrs(heap) # {}
    /\ LET r == WithCallChain(heap, cur[w], id)
           c == [cur EXCEPT ![w] = r.ctx]
       IN  /\ cur' = c
           /\ heap' = Collect(r.heap, CtxRoots(c))
    /\ exp' = [exp EXCEPT ![w].chain = Append(exp[w].chain, id)]
    /\ lastCheck' = NoCheck
    /\ UNCHANGED <<maxHops, concVars, meshVars, regVars>>

\* ctx = core.WithHopCount(ctx)
CtxWithHopCount(w) ==
    /\ HopCount(cur[w]) < MaxChainLen
    /\ cur' = [cur EXCEPT ![w] = WithHopCount(cur[w])]
    /\ exp' = [exp EXCEPT ![w].hops = exp[w].hops + 1]
    /\ lastCheck' = NoCheck
    /\ UNCHANGED <<heap, maxHops, concVars, meshVars, regVars>>

\* ctx = cd.PrepareContext(ctx, id)
CtxPrepareContext(w, id) ==
    /\ cur[w].len < MaxChainLen
    /\ FreeAddrs(heap) # {}
    /\ exp' = [exp EXCEPT ![w] =
                 [chain |-> Append(exp[w].chain, id), hops |-> exp[w].hops + 1]]
    /\ lastCheck' = NoCheck
    /\ LET r == PrepareContext(heap, cur[w], id)
           c == [cur EXCEPT ![w] = r.ctx]
       IN  /\ cur' = c
           /\ heap' = Collect(r.heap, CtxRoots(c))
    /\ UNCHANGED <<maxHops, concVars, meshVars, regVars>>

\* err := cd.Check(ctx, id)
CtxCheck(w, id) ==
    /\ lastCheck' = [op |-> "Check", chain |-> CallChain(heap, cur[w]),
                     hops |-> HopCount(cur[w]), id |-> id,
                     err |-> Check(heap, cur[w], id)]
    /\ UNCHANGED <<heap, maxHops, concVars, cur, exp, meshVars, regVars>>

\* a second goroutine is handed the context another one holds
CtxFork(w, v) ==
    /\ w # v
    /\ cur[w] # cur[v]
    /\ cur' = [cur EXCEPT ![w] = cur[v]]
    /\ exp' = [exp EXCEPT ![w] = exp[v]]
    /\ heap' = Collect(heap, CtxRoots(cur'))
    /\ lastCheck' = NoCheck
    /\ UNCHANGED <<maxHops, concVars, meshVars, regVars>>

InitGuard ==
    /\ InitCtx
    /\ maxHops \in {NewCycleDetector(n) : n \in 1..MaxHopsOpt}

NextGuard ==
    \/ \E id \in Agents : CtxWithCallChain(1, id)
    \/ CtxWithHopCount(1)
    \/ \E id \in Agents : CtxPrepareContext(1, id)
    \/ \E id \in Agents \cup {"D"} : CtxCheck(1, id)

SpecGuard == InitGuard /\ [][NextGuard]_vars

InitSiblings ==
    /\ InitCtx
    /\ maxHops = NewCycleDetector(MaxHopsOpt)

NextCtx ==
    \/ \E w \in Workers, id \in CtxIDs : CtxWithCallChain(w, id)
    \/ \E w \in Workers, id \in CtxIDs : CtxPrepareContext(w, id)
    \/ \E w \in Workers, v \in Workers : CtxFork(w, v)

SpecCtx == InitSiblings /\ [][NextCtx]_vars

(***************************************************************************)
(* Fixtures of the mesh: what each agent declares (Builder.Provides and    *)
(* Builder.Needs).  A needs what B and C provide, B needs what C provides, *)
(* C needs what A provides: A -> B -> C -> A and A -> C -> A are on offer. *)
(***************************************************************************)
Caps == {"research", "writing", "review"}

\* agents of the registry's own tests: two of them share an ID, one declares
\* a capability twice, and the capabilities differ in case and by a suffix
Mocks == {"x1", "x2", "y1"}

\* Agent.ID()
AgentID(a) ==
    CASE a \in Agents -> a
      [] a \in {"x1", "x2"} -> "X"
      [] a = "y1" -> "Y"

Provides(a) ==
    CASE a = "A" -> <<"research">>
      [] a = "B" -> <<"writing">>
      [] a = "C" -> <<"writing", "review">>
      [] a = "x1" -> <<"research", "research">>
      [] a = "x2" -> <<"Research">>
      [] a = "y1" -> <<"research2", "research">>

Needs(a) ==
    CASE a = "A" -> <<"writing">>
      [] a = "B" -> <<"review">>
      [] a = "C" -> <<"research">>

\* Builder.Model: the agents that were given an LLM provider
HasModel(a) == a \in Agents

(***************************************************************************)
(* pkg/registry/local.go                                                   *)
(***************************************************************************)
\* the values of the agents map
Registered(reg) == {reg[id] : id \in DOMAIN reg}

\* a Register that leaves an ID that is already taken alone
LocalRegisterKeep(reg, a) ==
    [id \in DOMAIN reg \cup {AgentID(a)} |-> IF id \in DOMAIN reg THEN reg[id] ELSE a]

\* r.agents[agent.ID()] = agent
LocalRegister(reg, a) ==
    [id \in DOMAIN reg \cup {AgentID(a)} |-> IF id = AgentID(a) THEN a ELSE reg[id]]

\* delete(r.agents, agentID)
LocalDeregister(reg, agentID) == [id \in DOMAIN reg \ {agentID} |-> reg[id]]

\* agent, ok := r.agents[agentID]
Get(reg, agentID) ==
    IF agentID \in DOMAIN reg
    THEN [agent |-> reg[agentID], err |-> NoErr]
    ELSE [agent |-> NilAgent, err |-> ErrAgentNotFound]

\* the orders in which a range over the agents map can visit a set
Orders(S) ==
    {q \in [1..Cardinality(S) -> S] : \A i, j \in 1..Cardinality(S) :
                                         q[i] = q[j] => i = j}

\* the inner loop of FindByCapability without its break: the agent is
\* appended once for every time it declares cap
RECURSIVE MatchesNoBreak(_, _)
MatchesNoBreak(provides, cap) ==
    IF provides = <<>> THEN 0
    ELSE (IF Head(provides) = cap THEN 1 ELSE 0) + MatchesNoBreak(Tail(provides), cap)

\* the inner loop of FindByCapability: how often it appends the agent to the
\* result; it stops at the first provided == cap
RECURSIVE Matches(_, _)
Matches(provides, cap) ==
    IF provides = <<>> THEN 0
    ELSE IF Head(provides) = cap THEN 1
    ELSE Matches(Tail(provides), cap)

\* FindByCapability when the range over the map visits the agents in the
\* order of the sequence agents
RECURSIVE FindByCapability(_, _)
FindByCapability(agents, cap) ==
    IF agents = <<>> THEN <<>>
    ELSE [i \in 1..Matches(Provides(Head(agents)), cap) |-> Head(agents)]
            \o FindByCapability(Tail(agents), cap)

\* List when the range visits the agents in that order
List(agents) == agents

\* the agents FindByCapability appends: Provides contains cap
Providers(reg, cap) ==
    {a \in reg : \E i \in 1..Len(Provides(a)) : Provides(a)[i] = cap}

\* what FindByCapability can return for every capability of caps: the agents
\* it appends, in the order the range over the map visits them
FoundOver(reg, caps) ==
    {f \in [caps -> UNION {Orders(Providers(Registered(reg), c)) : c \in caps}] :
        \A c \in caps : f[c] \in Orders(Providers(Registered(reg), c))}

(***************************************************************************)
(* pkg/mesh: balancers                                                     *)
(***************************************************************************)
\* RoundRobinBalancer.counter is a uint64.  A value c >= 0 stands for itself
\* and c < 0 for 2^64 + c, so that atomic.AddUint64(&counter, 1) is c + 1
\* everywhere, the wrap from 2^64 - 1 to 0 included.
UintBits == 64

\* 2^k mod n
RECURSIVE Pow2Mod(_, _)
Pow2Mod(k, n) == IF k = 0 THEN 1 % n ELSE (2 * Pow2Mod(k - 1, n)) % n

\* idx % uint64(n) for the uint64 that c stands for
UintMod(c, n) ==
    IF c >= 0 THEN c % n ELSE (Pow2Mod(UintBits, n) + (c % n)) % n

\* idx := atomic.AddUint64(&b.counter, 1) - 1; agents[idx%uint64(len(agents))]
RoundRobinSelect(cnt, agents) ==
    IF Len(agents) = 0 THEN [agent |-> NilAgent, counter |-> cnt, panic |-> FALSE]
    ELSE [agent |-> agents[UintMod(cnt, Len(agents)) + 1], counter |-> cnt + 1,
          panic |-> FALSE]

\* the randomness sources a RandomBalancer is built with: rand.Intn in the
\* documentation, nil in the serve command
RandFuncs == {"rand.Intn", "nil"}

\* a Select that asks the randomness source before it looks at the list
RandomSelectEager(cnt, agents, randFunc, r) ==
    IF randFunc = "nil" THEN [agent |-> NilAgent, counter |-> cnt, panic |-> TRUE]
    ELSE IF Len(agents) = 0 THEN [agent |-> NilAgent, counter |-> cnt, panic |-> FALSE]
    ELSE [agent |-> agents[r + 1], counter |-> cnt, panic |-> FALSE]

\* agents[b.randFunc(len(agents))]: calling a nil func panics, r is what a
\* non-nil randFunc returns
RandomSelect(cnt, agents, randFunc, r) ==
    IF Len(agents) = 0 THEN [agent |-> NilAgent, counter |-> cnt, panic |-> FALSE]
    ELSE IF randFunc = "nil" THEN [agent |-> NilAgent, counter |-> cnt, panic |-> TRUE]
    ELSE [agent |-> agents[r + 1], counter |-> cnt, panic |-> FALSE]

FirstSelect(cnt, agents) ==
    IF Len(agents) = 0 THEN [agent |-> NilAgent, counter |-> cnt, panic |-> FALSE]
    ELSE [agent |-> agents[1], counter |-> cnt, panic |-> FALSE]

\* the balancers a mesh is built with: NewRoundRobinBalancer(),
\* NewFirstBalancer(), NewRandomBalancer(rand.Intn), NewRandomBalancer(nil)
Balancers == {"roundrobin", "first", "random", "random(nil)"}

\* t.balancer.Select(t.providers); r is what randFunc(len(agents)) returns
Select(kind, cnt, agents, r) ==
    CASE kind = "roundrobin" -> RoundRobinSelect(cnt, agents)
      [] kind = "random" -> RandomSelect(cnt, agents, "rand.Intn", r)
      [] kind = "random(nil)" -> RandomSelect(cnt, agents, "nil", r)
      [] kind = "first" -> FirstSelect(cnt, agents)

(***************************************************************************)
(* pkg/mesh/injector.go                                                    *)
(***************************************************************************)
ToolName(cap) == "delegate_to_" \o cap

\* an InjectTools that creates a tool also for a need without providers
RECURSIVE InjectToolsNoSkip(_, _)
InjectToolsNoSkip(needs, found) ==
    IF needs = <<>> THEN <<>>
    ELSE <<[capability |-> Head(needs), providers |-> found[Head(needs)]]>>
            \o InjectToolsNoSkip(Tail(needs), found)

\* one AgentTool per need that has providers; found[cap] is what
\* FindByCapability returned for it
RECURSIVE InjectTools(_, _)
InjectTools(needs, found) ==
    IF needs = <<>> THEN <<>>
    ELSE LET need == Head(needs)
             rest == InjectTools(Tail(needs), found)
         IN  IF Len(found[need]) = 0 THEN rest
             ELSE <<[capability |-> need, providers |-> found[need]]>> \o rest

NoTool == [capability |-> "", providers |-> <<>>]

(***************************************************************************)
(* A registry.Local and an Injector over it, called directly as the        *)
(* package tests do: Register, Deregister, Get, List, FindByCapability and *)
(* InjectTools for an agent with the given Needs.                          *)
(***************************************************************************)
\* the Needs an agent can be built with
NeedsLists == UNION {[1..n -> RegCaps] : n \in 0..MaxNeeds}

\* reg.Register(ctx, a)
RegRegister(a) ==
    /\ registry' = LocalRegister(registry, a)
    /\ latest' = [latest EXCEPT ![AgentID(a)] =
                     [agent |-> a, updated |-> latest[AgentID(a)].agent # NilAgent]]
    /\ lastOp' = [NoOp EXCEPT !.op = "Register", !.id = AgentID(a), !.agent = a]
    /\ UNCHANGED <<heap, maxHops, concVars, ctxVars, tools, balancer, counter, stack,
                   outcome, delivered>>

\* reg.Deregister(ctx, id)
RegDeregister(id) ==
    /\ registry' = LocalDeregister(registry, id)
    /\ latest' = [latest EXCEPT ![id] = NoEntry]
    /\ lastOp' = [NoOp EXCEPT !.op = "Deregister", !.id = id]
    /\ UNCHANGED <<heap, maxHops, concVars, ctxVars, tools, balancer, counter, stack,
                   outcome, delivered>>

\* reg.Get(ctx, id)
RegGet(id) ==
    /\ lastOp' = [NoOp EXCEPT !.op = "Get", !.id = id,
                              !.agent = Get(registry, id).agent,
                              !.err = Get(registry, id).err]
    /\ UNCHANGED <<heap, maxHops, concVars, ctxVars, meshVars, latest>>

\* reg.List(ctx)
RegList ==
    /\ \E o \in Orders(Registered(registry)) :
         lastOp' = [NoOp EXCEPT !.op = "List", !.result = List(o)]
    /\ UNCHANGED <<heap, maxHops, concVars, ctxVars, meshVars, latest>>

\* reg.FindByCapability(ctx, cap)
RegFindByCapability(cap) ==
    /\ \E o \in Orders(Registered(registry)) :
         lastOp' = [NoOp EXCEPT !.op = "FindByCapability", !.cap = cap,
                                !.result = FindByCapability(o, cap)]
    /\ UNCHANGED <<heap, maxHops, concVars, ctxVars, meshVars, latest>>

\* injector.InjectTools(ctx, agent) for an agent built with Needs(needs...)
RegInjectTools(needs) ==
    /\ \E found \in FoundOver(registry, RegCaps) :
         lastOp' = [NoOp EXCEPT !.op = "InjectTools", !.needs = needs,
                                !.found = found,
                                !.result = InjectTools(needs, found)]
    /\ UNCHANGED <<heap, maxHops, concVars, ctxVars, meshVars, latest>>

InitRegistry ==
    /\ InitCtx
    /\ maxHops = NewCycleDetector(DefaultMaxHops)

NextRegistry ==
    \/ \E a \in Mocks : RegRegister(a)
    \/ \E id \in RegIDs : RegDeregister(id)
    \/ \E id \in RegIDs : RegGet(id)
    \/ RegList
    \/ \E cap \in RegCaps : RegFindByCapability(cap)
    \/ \E needs \in NeedsLists : RegInjectTools(needs)

SpecRegistry == InitRegistry /\ [][NextRegistry]_vars

(***************************************************************************)
(* pkg/agent: Agent.Run, one record per call in progress                   *)
(*   pc: enter   Run was called with ctx                                   *)
(*       chat    about to call provider.Chat                               *)
(*       tools   in the loop over resp.ToolCalls, pending calls left       *)
(*       select, check, prepare: inside AgentTool.Execute of tool          *)
(*       wait    inside provider.Run of the selected provider              *)
(*   delegErr: Content of the last tool result with IsError that a        *)
(*       delegation left in the messages, "" when there is none            *)
(*   selects, runs: the calls of balancer.Select and of provider.Run that  *)
(*       the tool call in progress, or the one that just ended, has made   *)
(*   err: the error value executeTool returned for the tool call that just *)
(*       ended                                                             *)
(***************************************************************************)
NewFrame(a, ctx) ==
    [agent |-> a, ctx |-> ctx, pc |-> "enter", pending |-> 0, calls |-> 0,
     tool |-> NoTool, prov |-> NilAgent, tctx |-> Background, delegErr |-> "",
     selects |-> 0, runs |-> 0, err |-> NoErr]

Top == stack[Len(stack)]

StackRoots(st) ==
    ({st[i].ctx.arr : i \in 1..Len(st)} \cup {st[i].tctx.arr : i \in 1..Len(st)}) \ {0}

\* executeTool: the first tool of the agent with that name, 0 when none
FindTool(ts, name) ==
    IF \E i \in 1..Len(ts) : ToolName(ts[i].capability) = name
    THEN CHOOSE i \in 1..Len(ts) :
            /\ ToolName(ts[i].capability) = name
            /\ \A j \in 1..(i - 1) : ToolName(ts[j].capability) # name
    ELSE 0

\* the tool message is built without IsError and the error text
ToolResultNoFlag(a, result, err) ==
    [agent |-> a, isError |-> FALSE, content |-> result]

\* toolResult := &core.ToolResult{Content: result, IsError: err != nil},
\* with Content = err.Error() on an error
ToolResult(a, result, err) ==
    [agent |-> a, isError |-> err # NoErr,
     content |-> IF err # NoErr THEN err ELSE result]

\* what AgentTool.Execute returns as error once the provider list is known
DelegationErrors ==
    {"no provider available", ErrCycleDetected, ErrMaxHopsExceeded, "agent failed"}

\* a loop that calls the tool once more after a failed delegation
AfterToolRetry(f, msg) ==
    IF msg.isError /\ msg.content \in DelegationErrors /\ f.selects = 1
       /\ Len(f.tool.providers) > 1
    THEN [f EXCEPT !.pc = "select", !.prov = NilAgent, !.tctx = Background]
    ELSE [f EXCEPT !.delegErr = IF msg.isError /\ msg.content \in DelegationErrors
                                THEN msg.content ELSE f.delegErr,
                   !.pending = f.pending - 1,
                   !.pc = "tools", !.tool = NoTool, !.prov = NilAgent,
                   !.tctx = Background]

\* Agent.Run appends the tool message and goes on with the next tool call
AfterTool(f, msg) ==
    [f EXCEPT !.delegErr = IF msg.isError /\ msg.content \in DelegationErrors
                            THEN msg.content ELSE f.delegErr,
              !.pending = f.pending - 1,
              !.pc = "tools", !.tool = NoTool, !.prov = NilAgent,
              !.tctx = Background]

SetTop(f) == [stack EXCEPT ![Len(stack)] = f]

\* the tool call of the top frame, which has got as far as f, ends with
\* (result, err)
ToolReturnsFrom(f, result, err) ==
    LET msg == ToolResult(f.agent, result, err)
    IN  /\ stack' = SetTop(AfterTool([f EXCEPT !.err = err], msg))
        /\ delivered' = msg
        /\ heap' = Collect(heap, StackRoots(stack'))

ToolReturns(result, err) == ToolReturnsFrom(Top, result, err)

\* Agent.Run of the top frame returns (result, err): to AgentTool.Execute of
\* the caller, or to the client of the mesh
RunReturns(err) ==
    IF Len(stack) = 1
    THEN /\ stack' = <<>>
         /\ heap' = Collect(heap, {})
         /\ outcome' = [status |-> IF err = NoErr THEN "ok" ELSE "error",
                        err |-> err,
                        chain |-> IF err = NoErr THEN CallChain(heap, Top.ctx) ELSE <<>>,
                        delegErr |-> Top.delegErr,
                        trace |-> IF err = NoErr THEN TraceID(Top.ctx) ELSE ""]
         /\ delivered' = NoMessage
    ELSE LET caller == stack[Len(stack) - 1]
             st == SubSeq(stack, 1, Len(stack) - 1)
             \* Execute returns result.Output, or the error wrapped with the
             \* provider's name
             execErr == IF err = NoErr THEN NoErr ELSE "agent failed"
             msg == ToolResult(caller.agent,
                               IF err = NoErr THEN "output" ELSE "", execErr)
         IN  /\ stack' = [st EXCEPT ![Len(st)] =
                                        AfterTool([caller EXCEPT !.err = execErr], msg)]
             /\ delivered' = msg
             /\ heap' = Collect(heap, StackRoots(stack'))
             /\ UNCHANGED outcome

\* Agent.Run up to the loop: the nil-provider check, then the agent adds
\* itself to the call chain
RunEnter ==
    /\ stack # <<>>
    /\ Top.pc = "enter"
    /\ IF ~HasModel(Top.agent)
       THEN RunReturns(ErrNoProvider)
       ELSE /\ FreeAddrs(heap) # {}
            /\ LET r == WithCallChain(heap, Top.ctx, Top.agent)
               IN  /\ stack' = SetTop([Top EXCEPT !.ctx = r.ctx, !.pc = "chat"])
                   /\ heap' = Collect(r.heap, StackRoots(stack'))
            /\ delivered' = NoMessage
            /\ UNCHANGED outcome
    /\ UNCHANGED <<maxHops, concVars, ctxVars, regVars, registry, tools, balancer, counter>>

\* provider.Chat answers with n tool calls
ChatToolUse(n) ==
    /\ stack # <<>>
    /\ Top.pc = "chat"
    /\ Top.calls + n <= MaxToolCalls
    /\ stack' = SetTop([Top EXCEPT !.pc = "tools", !.pending = n,
                                   !.calls = Top.calls + n])
    /\ delivered' = NoMessage
    /\ UNCHANGED <<heap, maxHops, concVars, ctxVars, regVars, registry, tools, balancer, counter, outcome>>

\* provider.Chat answers with the final content: Run returns its Result
ChatFinal ==
    /\ stack # <<>>
    /\ Top.pc = "chat"
    /\ RunReturns(NoErr)
    /\ UNCHANGED <<maxHops, concVars, ctxVars, regVars, registry, tools, balancer, counter>>

\* provider.Chat fails: Run returns "provider error"
ChatError ==
    /\ stack # <<>>
    /\ Top.pc = "chat"
    /\ RunReturns("provider error")
    /\ UNCHANGED <<maxHops, concVars, ctxVars, regVars, registry, tools, balancer, counter>>

\* every tool call of the response was executed: continue the loop
ToolsDone ==
    /\ stack # <<>>
    /\ Top.pc = "tools"
    /\ Top.pending = 0
    /\ stack' = SetTop([Top EXCEPT !.pc = "chat", !.selects = 0, !.runs = 0,
                                   !.err = NoErr])
    /\ delivered' = NoMessage
    /\ UNCHANGED <<heap, maxHops, concVars, ctxVars, regVars, registry, tools, balancer, counter, outcome>>

\* executeTool for the next tool call: the LLM named the tool `name` and
\* sent parameters that parse as AgentToolInput or do not
ExecuteTool(name, valid) ==
    /\ stack # <<>>
    /\ Top.pc = "tools"
    /\ Top.pending > 0
    /\ LET i == FindTool(tools[Top.agent], name)
           f == [Top EXCEPT !.selects = 0, !.runs = 0, !.err = NoErr]
       IN  IF i = 0 THEN ToolReturnsFrom(f, "", "tool not found")
           ELSE IF ~valid THEN ToolReturnsFrom(f, "", "invalid input")
           ELSE /\ stack' = SetTop([f EXCEPT !.pc = "select",
                                             !.tool = tools[Top.agent][i]])
                /\ delivered' = NoMessage
                /\ UNCHANGED heap
    /\ UNCHANGED <<maxHops, concVars, ctxVars, regVars, registry, tools, balancer, counter,
                   outcome>>

\* AgentTool.Execute: provider := t.balancer.Select(t.providers)
ExecSelect(r) ==
    /\ stack # <<>>
    /\ Top.pc = "select"
    /\ r < Len(Top.tool.providers) \/ r = 0
    /\ balancer = "random" \/ r = 0
    /\ LET sel == Select(balancer, counter, Top.tool.providers, r)
           f == [Top EXCEPT !.selects = Top.selects + 1]
       IN  /\ counter' = sel.counter
           /\ IF sel.panic
              THEN \* the panic unwinds every Run in progress
                   /\ stack' = <<>>
                   /\ heap' = Collect(heap, {})
                   /\ outcome' = [NoOutcome EXCEPT !.status = "panic"]
                   /\ delivered' = NoMessage
              ELSE IF sel.agent = NilAgent
              THEN /\ ToolReturnsFrom(f, "", "no provider available")
                   /\ UNCHANGED outcome
              ELSE /\ stack' = SetTop([f EXCEPT !.pc = "check", !.prov = sel.agent])
                   /\ delivered' = NoMessage
                   /\ UNCHANGED <<heap, outcome>>
    /\ UNCHANGED <<maxHops, concVars, ctxVars, regVars, registry, tools, balancer>>

\* AgentTool.Execute: t.cycleDetector.Check(ctx, provider.ID())
ExecCheck ==
    /\ stack # <<>>
    /\ Top.pc = "check"
    /\ LET err == Check(heap, Top.ctx, Top.prov)
       IN  IF err # NoErr
           THEN ToolReturns("", err)
           ELSE /\ stack' = SetTop([Top EXCEPT !.pc = "prepare"])
                /\ delivered' = NoMessage
                /\ UNCHANGED heap
    /\ UNCHANGED <<maxHops, concVars, ctxVars, regVars, registry, tools, balancer, counter,
                   outcome>>

\* AgentTool.Execute: ctx = PrepareContext(ctx, provider.ID()), then
\* provider.Run(ctx, fullInput) is called
ExecRun ==
    /\ stack # <<>>
    /\ Top.pc = "prepare"
    /\ FreeAddrs(heap) # {}
    /\ LET r == PrepareContext(heap, Top.ctx, Top.prov)
       IN  /\ stack' = Append(SetTop([Top EXCEPT !.pc = "wait", !.tctx = r.ctx,
                                                  !.runs = Top.runs + 1]),
                              NewFrame(Top.prov, r.ctx))
           /\ heap' = Collect(r.heap, StackRoots(stack'))
    /\ delivered' = NoMessage
    /\ UNCHANGED <<maxHops, concVars, ctxVars, regVars, registry, tools, balancer, counter,
                   outcome>>

(***************************************************************************)
(* pkg/mesh: the Mesh facade, called by a client with a background context *)
(***************************************************************************)
Idle == stack = <<>>

\* the argument lists the client calls Mesh.Register with
Batches == {<<"A", "B">>, <<"C">>}

\* for _, a := range agents { m.registry.Register(ctx, a) }
RECURSIVE RegisterAll(_, _)
RegisterAll(reg, agents) ==
    IF agents = <<>> THEN reg
    ELSE RegisterAll(LocalRegister(reg, Head(agents)), Tail(agents))

\* Mesh.Register(agents...): registry.Register of each in turn; Local.Register
\* sets agents[ID] and never fails
Register(agents) ==
    /\ Idle
    /\ registry' = RegisterAll(registry, agents)
    /\ outcome' = NoOutcome
    /\ UNCHANGED <<heap, maxHops, concVars, ctxVars, regVars, tools, balancer, counter, stack,
                   delivered>>

\* the tools PrepareAgent adds to agent a: InjectTools, then AddTools
Prepared(a, found) ==
    [tools EXCEPT ![a] = tools[a] \o InjectTools(Needs(a), found)]

\* what FindByCapability can return for every capability
Found == FoundOver(registry, Caps)

\* the client stops preparing an agent that holds MaxTools tools
ToolLimit == [a \in Agents |-> MaxTools]

\* Mesh.PrepareAgent(ctx, a), while a holds at most limit[a] tools afterwards
PrepareAgentUpTo(a, limit) ==
    /\ Idle
    /\ \E found \in Found :
         /\ Len(Prepared(a, found)[a]) <= limit[a]
         /\ tools' = Prepared(a, found)
    /\ outcome' = NoOutcome
    /\ UNCHANGED <<heap, maxHops, concVars, ctxVars, regVars, registry, balancer, counter, stack,
                   delivered>>

PrepareAgent(a) == PrepareAgentUpTo(a, ToolLimit)

\* a GetAgent that returns an error of its own for a failed lookup
GetAgentOwnError(reg, agentID) ==
    [Get(reg, agentID) EXCEPT !.err = IF @ = NoErr THEN NoErr ELSE "get agent failed"]

\* Mesh.GetAgent(ctx, agentID)
GetAgent(reg, agentID) == Get(reg, agentID)

\* the strings uuid.New().String() returns
UUIDs == {"uuid-1"}

\* an entry point that puts a fresh trace ID into every context
EnsureTraceIDAlways(ctx, uuid) == WithTraceID(ctx, uuid)

\* if core.TraceID(ctx) == "" { ctx = core.WithTraceID(ctx, uuid.New().String()) }
EnsureTraceID(ctx, uuid) ==
    IF TraceID(ctx) = "" THEN WithTraceID(ctx, uuid) ELSE ctx

\* Mesh.RunAgent(ctx, agentID, input), uuid.New() drawing from uuids
RunAgentFrom(ctx, uuids, agentID, limit) ==
    /\ Idle
    /\ IF GetAgent(registry, agentID).err # NoErr
       THEN /\ outcome' = [NoOutcome EXCEPT !.status = "error",
                                            !.err = GetAgent(registry, agentID).err]
            /\ UNCHANGED <<tools, stack>>
       ELSE /\ \E found \in Found :
                 /\ Len(Prepared(GetAgent(registry, agentID).agent, found)
                            [GetAgent(registry, agentID).agent])
                        <= limit[GetAgent(registry, agentID).agent]
                 /\ tools' = Prepared(GetAgent(registry, agentID).agent, found)
            /\ \E uuid \in uuids :
                 stack' = <<NewFrame(GetAgent(registry, agentID).agent,
                                     EnsureTraceID(ctx, uuid))>>
            /\ outcome' = NoOutcome
    /\ UNCHANGED <<heap, maxHops, ctxVars, latest, registry, balancer, counter, delivered>>

\* Mesh.RunAgent(context.Background(), agentID, input) with no other call
\* on the mesh in progress
RunAgentUpTo(agentID, limit) ==
    /\ RunAgentFrom(Background, UUIDs, agentID, limit)
    /\ UNCHANGED <<lastOp, concVars>>

RunAgent(agentID) == RunAgentUpTo(agentID, ToolLimit)

\* Mesh.Run(ctx, task): the first agent List returns
MeshRunFrom(ctx, uuids, limit) ==
    /\ Idle
    /\ IF Registered(registry) = {}
       THEN /\ outcome' = [NoOutcome EXCEPT !.status = "error", !.err = ErrAgentNotFound]
            /\ UNCHANGED <<tools, stack>>
       ELSE \E agents \in Orders(Registered(registry)) :
              /\ \E found \in Found :
                   /\ Len(Prepared(agents[1], found)[agents[1]]) <= limit[agents[1]]
                   /\ tools' = Prepared(agents[1], found)
              /\ \E uuid \in uuids :
                   stack' = <<NewFrame(agents[1], EnsureTraceID(ctx, uuid))>>
              /\ outcome' = NoOutcome
    /\ UNCHANGED <<heap, maxHops, concVars, ctxVars, latest, registry, balancer, counter,
                   delivered>>

\* Mesh.Run(context.Background(), task)
MeshRunUpTo(limit) ==
    /\ MeshRunFrom(Background, UUIDs, limit)
    /\ UNCHANGED lastOp

MeshRun == MeshRunUpTo(ToolLimit)

\* reg.Deregister(ctx, agentID) by a client that gave the mesh its registry
\* (WithRegistry(reg))
Deregister(agentID) ==
    /\ Idle
    /\ registry' = LocalDeregister(registry, agentID)
    /\ outcome' = NoOutcome
    /\ UNCHANGED <<heap, maxHops, concVars, ctxVars, regVars, tools, balancer, counter, stack,
                   delivered>>

\* mesh.New(WithMaxHops(n), WithBalancer(NewRandomBalancer())): rand.Intn can
\* return every index, so each provider a round-robin or first balancer
\* would select is among the selections
Init ==
    /\ heap = [a \in Addrs |-> <<>>]
    /\ maxHops \in {NewCycleDetector(n) : n \in 1..MaxHopsOpt}
    /\ balancer = "random"
    /\ cur = [w \in Workers |-> Background]
    /\ exp = [w \in Workers |-> [chain |-> <<>>, hops |-> 0]]
    /\ lastCheck = NoCheck
    /\ InitMesh

\* a step of the goroutine that is inside Agent.Run
RunStep ==
    \/ RunEnter
    \/ \E n \in 1..MaxToolCalls : ChatToolUse(n)
    \/ ChatFinal
    \/ ChatError
    \/ ToolsDone
    \/ \E c \in Caps \cup {"other"}, valid \in BOOLEAN : ExecuteTool(ToolName(c), valid)
    \/ \E r \in 0..(Cardinality(Agents) - 1) : ExecSelect(r)
    \/ ExecCheck
    \/ ExecRun

Next ==
    \/ \E agents \in Batches : Register(agents)
    \/ \E a \in Agents : PrepareAgent(a)
    \/ \E a \in Agents : RunAgent(a)
    \/ MeshRun
    \/ RunStep

Spec == Init /\ [][Next]_vars

SpecLive == Spec /\ WF_vars(RunStep)

(***************************************************************************)
(* The mesh over a registry the client keeps a handle on:                  *)
(* reg := registry.NewLocal(); m := mesh.New(WithRegistry(reg),            *)
(* WithBalancer(NewRandomBalancer()), WithMaxHops(1)).  Between runs the   *)
(* client registers agents, takes providers out of the registry and        *)
(* prepares A; prepared agents keep what AddTools gave them.               *)
(***************************************************************************)
\* the client prepares and runs A again and again, and A keeps up to
\* MaxAttached tools
Attachable == [a \in Agents |-> IF a = "A" THEN MaxAttached ELSE MaxTools]

InitTopology ==
    /\ heap = [a \in Addrs |-> <<>>]
    /\ maxHops = NewCycleDetector(1)
    /\ balancer = "random"
    /\ cur = [w \in Workers |-> Background]
    /\ exp = [w \in Workers |-> [chain |-> <<>>, hops |-> 0]]
    /\ lastCheck = NoCheck
    /\ InitMesh

NextTopology ==
    \/ \E agents \in Batches : Register(agents)
    \/ \E a \in Agents \ {"A"} : Deregister(a)
    \/ PrepareAgentUpTo("A", Attachable)
    \/ \E a \in Agents : RunAgentUpTo(a, Attachable)
    \/ MeshRunUpTo(Attachable)
    \/ RunStep

SpecTopology == InitTopology /\ [][NextTopology]_vars

(***************************************************************************)
(* An agent that was given an AgentTool at build time, as the tests of    *)
(* package mesh build one (&AgentTool{capability, providers, balancer,     *)
(* cycleDetector} passed to Builder.Tools), and is run directly.  The      *)
(* provider list is any the package can write down, the empty one and one  *)
(* naming the agent itself included.                                       *)
(***************************************************************************)
\* the provider lists of the tool A is built with
BuiltProviders == {<<>>, <<"A">>, <<"B">>, <<"B", "C">>}

\* agent.New(...).Model(mock).Tools(&AgentTool{...}).Build() for A; B and C
\* without a tool or with the tool for what they need
BuiltTools ==
    {[a \in Agents |->
        CASE a = "A" -> <<[capability |-> "writing", providers |-> p]>>
          [] a = "B" -> IF b THEN <<[capability |-> "review", providers |-> <<"C">>]>>
                        ELSE <<>>
          [] a = "C" -> IF c THEN <<[capability |-> "research", providers |-> <<"A">>]>>
                        ELSE <<>>] :
        p \in BuiltProviders, b \in BOOLEAN, c \in BOOLEAN}

\* A.Run(context.Background(), input) has been called
InitTool ==
    /\ heap = [a \in Addrs |-> <<>>]
    /\ maxHops \in {NewCycleDetector(n) : n \in 1..MaxHopsOpt}
    /\ balancer \in Balancers
    /\ cur = [w \in Workers |-> Background]
    /\ exp = [w \in Workers |-> [chain |-> <<>>, hops |-> 0]]
    /\ lastCheck = NoCheck
    /\ registry = NewLocal
    /\ tools \in BuiltTools
    /\ counter = 0
    /\ stack = <<NewFrame("A", Background)>>
    /\ outcome = NoOutcome
    /\ delivered = NoMessage
    /\ lastOp = NoOp
    /\ latest = [id \in RegIDs |-> NoEntry]
    /\ mu = NoLocks
    /\ procs = NoProcs

NextTool == RunStep

SpecTool == InitTool /\ [][NextTool]_vars

(***************************************************************************)
(* Claims about the guard and the context helpers.                         *)
(***************************************************************************)
Checked == lastCheck.op = "Check"

Occurs(chain, id) == \E i \in 1..Len(chain) : chain[i] = id

\* C1: Check on a candidate ID that appears anywhere in the context's call
\* chain (first, middle or last position) returns ErrCycleDetected.
C1_CycleCheck ==
    (Checked /\ Occurs(lastCheck.chain, lastCheck.id))
        => lastCheck.err = ErrCycleDetected

\* a Check of the middle ID of a three-element chain was answered
C1_Witness ==
    /\ Checked
    /\ Len(lastCheck.chain) = 3
    /\ lastCheck.chain[2] = lastCheck.id
    /\ lastCheck.chain[1] # lastCheck.id
    /\ lastCheck.chain[3] # lastCheck.id
    /\ lastCheck.err = ErrCycleDetected

\* C3: Check on a context whose hop count is >= maxHops, for a candidate ID
\* that never appeared in the call chain, returns ErrMaxHopsExceeded.
C3_HopBudgetCheck ==
    (Checked /\ lastCheck.hops >= maxHops
             /\ ~Occurs(lastCheck.chain, lastCheck.id))
        => lastCheck.err = ErrMaxHopsExceeded

\* A, B, C were prepared, the hop count sits on the budget, D is unvisited
C3_Witness ==
    /\ Checked
    /\ lastCheck.chain = <<"A", "B", "C">>
    /\ lastCheck.hops = maxHops
    /\ lastCheck.id = "D"
    /\ lastCheck.err = ErrMaxHopsExceeded

\* C6: PrepareContext(c, id) returns a context whose chain is c's chain with
\* id appended and whose hop count is c's plus one, and the chain and hop
\* count of every context another holder has in hand (c itself included)
\* read the same after the call.
C6_PrepareDoesNotMutate ==
    [][\A w \in Workers, id \in CtxIDs :
          CtxPrepareContext(w, id) =>
            /\ CallChain(heap', cur'[w]) = Append(CallChain(heap, cur[w]), id)
            /\ HopCount(cur'[w]) = HopCount(cur[w]) + 1
            /\ \A v \in Workers \ {w} :
                 /\ cur'[v] = cur[v]
                 /\ CallChain(heap', cur'[v]) = CallChain(heap, cur[v])
                 /\ HopCount(cur'[v]) = HopCount(cur[v])]_vars

\* both holders extended one and the same context c, with different IDs
C6_Witness ==
    /\ cur[1].len = cur[2].len
    /\ cur[1].len >= 2
    /\ cur[1].arr # cur[2].arr
    /\ SubSeq(exp[1].chain, 1, cur[1].len - 1) = SubSeq(exp[2].chain, 1, cur[2].len - 1)
    /\ exp[1].chain[cur[1].len] = "A"
    /\ exp[2].chain[cur[2].len] = "B"
    /\ exp[1].hops = exp[2].hops
    /\ exp[1].hops >= 1
    /\ CallChain(heap, cur[1]) = exp[1].chain
    /\ CallChain(heap, cur[2]) = exp[2].chain

\* the guard's decision on a chain and hop count given by value
Decision(chain, hops, id) ==
    IF Occurs(chain, id) THEN ErrCycleDetected
    ELSE IF hops >= maxHops THEN ErrMaxHopsExceeded
    ELSE NoErr

\* C7: a branch reads exactly the chain and hop count made of its ancestor
\* context and its own extensions, and the guard decides on those alone,
\* whatever the other branches did and in whatever order.
C7_SiblingIsolation ==
    \A w \in Workers :
        /\ CallChain(heap, cur[w]) = exp[w].chain
        /\ HopCount(cur[w]) = exp[w].hops
        /\ \A id \in CtxIDs :
             Check(heap, cur[w], id) = Decision(exp[w].chain, exp[w].hops, id)

\* two branches of one ancestor, and the guard answers them differently
C7_Witness ==
    /\ cur[1].len = cur[2].len
    /\ cur[1].len >= 2
    /\ SubSeq(exp[1].chain, 1, cur[1].len - 1) = SubSeq(exp[2].chain, 1, cur[2].len - 1)
    /\ exp[1].chain[cur[1].len] # exp[2].chain[cur[2].len]
    /\ Check(heap, cur[1], "A") = ErrCycleDetected
    /\ Check(heap, cur[2], "A") = NoErr

(***************************************************************************)
(* Claims about executions of the mesh.                                    *)
(***************************************************************************)
\* the agent's Run is in progress on the delegation path
OnPath(a) == \E i \in 1..Len(stack) : stack[i].agent = a

NoReentry == \A i, j \in 1..Len(stack) : i # j => stack[i].agent # stack[j].agent

\* the tool message that tells agent a its tool call failed with e
Failure(a, e) == [agent |-> a, isError |-> TRUE, content |-> e]

\* the guard's decision on the caller's context and the selected provider
TopDecision == Decision(CallChain(heap, Top.ctx), HopCount(Top.ctx), Top.prov)

\* C2: in a delegation tree started by RunAgent or Run from an empty context
\* no agent's Run is entered while a Run of that agent is in progress on the
\* same path (the root included), and a delegation whose selected provider is
\* on the path is rejected with the cycle error without entering its Run.
C2_NoReentrancy ==
    [][/\ NoReentry'
       /\ (stack # <<>> /\ Top.pc = "check" /\ OnPath(Top.prov)) =>
            /\ Len(stack') = Len(stack)
            /\ delivered' = Failure(Top.agent, ErrCycleDetected)]_vars

\* A -> B -> C, and C's delegation back to the root A was rejected
C2_Witness ==
    /\ Len(stack) = 3
    /\ stack[1].agent = "A"
    /\ stack[2].agent = "B"
    /\ stack[3].agent = "C"
    /\ delivered = Failure("C", ErrCycleDetected)

\* C4: every context handed to an agent's Run has hop count <= maxHops, and
\* no path of nested delegations is longer than maxHops.
C4_BoundedDepth ==
    /\ \A i \in 1..Len(stack) : HopCount(stack[i].ctx) <= maxHops
    /\ Len(stack) <= maxHops + 1

\* a path of distinct agents used the whole budget and the next delegation,
\* to an agent not on the path, was rejected
C4_Witness ==
    /\ Len(stack) = maxHops + 1
    /\ HopCount(Top.ctx) = maxHops
    /\ Top.agent = "B"
    /\ delivered = Failure("B", ErrMaxHopsExceeded)

\* C5: with finitely many tool calls per agent and backends that answer,
\* every RunAgent / Run call eventually returns: time and again no Run is in
\* progress.
C5_Terminates == []<>(stack = <<>>)

\* a run returned in a mesh whose agents depend on each other in a ring
C5_Witness ==
    /\ Idle
    /\ outcome.status = "ok"
    /\ \E i \in 1..Len(tools["A"]) : Occurs(tools["A"][i].providers, "B")
    /\ \E i \in 1..Len(tools["B"]) : Occurs(tools["B"][i].providers, "C")
    /\ \E i \in 1..Len(tools["C"]) : Occurs(tools["C"][i].providers, "A")

\* C8: in every context of a mesh execution started from an empty context
\* the hop count equals the length of the call chain.
C8_HopCountIsChainLength ==
    \A i \in 1..Len(stack) :
        HopCount(stack[i].ctx) = Len(CallChain(heap, stack[i].ctx))

\* C9: AgentTool.Execute selects a provider, then checks that provider
\* against the caller's context, and only after a successful check extends
\* the context and invokes the provider's Run; on a failed check the tool call
\* fails with the guard's error and no Run is invoked.
C9_GuardBeforeRun ==
    [][stack # <<>> =>
         /\ (Len(stack') = Len(stack) /\ Top'.pc = "check") =>
              /\ Top.pc = "select"
              /\ Occurs(Top.tool.providers, Top'.prov)
         /\ (Len(stack') = Len(stack) /\ Top'.pc = "prepare") =>
              /\ Top.pc = "check"
              /\ Top'.prov = Top.prov
              /\ TopDecision = NoErr
         /\ Len(stack') > Len(stack) =>
              /\ Top.pc = "prepare"
              /\ TopDecision = NoErr
              /\ Top'.agent = Top.prov
              /\ CallChain(heap', Top'.ctx) = Append(CallChain(heap, Top.ctx), Top.prov)
              /\ HopCount(Top'.ctx) = HopCount(Top.ctx) + 1
         /\ (Top.pc = "check" /\ TopDecision # NoErr) =>
              /\ Len(stack') = Len(stack)
              /\ Top'.pc = "tools"
              /\ delivered' = Failure(Top.agent, TopDecision)]_vars

\* C was entered by A's delegation, selected A, and the call failed with the
\* cycle error
C9_Witness ==
    /\ Len(stack) = 2
    /\ stack[1].agent = "A"
    /\ Top.agent = "C"
    /\ Top.pc = "tools"
    /\ delivered = Failure("C", ErrCycleDetected)

Live == {id \in RegIDs : latest[id].agent # NilAgent}

Declares(a, cap) == \E i \in 1..Len(Provides(a)) : Provides(a)[i] = cap

\* the registered agents that declare cap
ProvidersNow(cap) ==
    {latest[id].agent : id \in {i \in Live : Declares(latest[i].agent, cap)}}

Range(seq) == {seq[i] : i \in 1..Len(seq)}

NoDup(seq) == \A i, j \in 1..Len(seq) : i # j => seq[i] # seq[j]

HasProvider(cap) == ProvidersNow(cap) # {}

C17_DuplicateNeedsCollapse ==
    lastOp.op = "InjectTools" =>
        \A i, j \in 1..Len(lastOp.result) :
            i # j => lastOp.result[i].capability # lastOp.result[j].capability

\* C18: FindByCapability(cap) returns exactly the registered agents whose
\* Provides contains cap under exact equality, each of them once.
C18_FindByCapability ==
    lastOp.op = "FindByCapability" =>
        /\ NoDup(lastOp.result)
        /\ Range(lastOp.result) = ProvidersNow(lastOp.cap)

\* x1 declares research twice and y1 once; x2, declaring Research, had been
\* replaced, and both are returned once
C18_Witness ==
    /\ lastOp.op = "FindByCapability"
    /\ lastOp.cap = "research"
    /\ latest["X"].updated
    /\ Range(lastOp.result) = {"x1", "y1"}
    /\ Len(lastOp.result) = 2

\* the registry agrees with the history of Register and Deregister
SingleMapping ==
    /\ DOMAIN registry = Live
    /\ \A id \in Live : registry[id] = latest[id].agent
    /\ lastOp.op = "Get" =>
         /\ lastOp.agent = latest[lastOp.id].agent
         /\ lastOp.err = NoErr <=> lastOp.id \in Live
    /\ lastOp.op = "List" =>
         /\ Len(lastOp.result) = Cardinality(Live)
         /\ Range(lastOp.result) = {latest[id].agent : id \in Live}

\* C19: List holds exactly one entry for each ID whose latest operation was
\* Register, Get(id) returns the agent most recently registered under id, and
\* registering under a taken ID succeeds and leaves the number of entries
\* unchanged.
C19_SingleMapping ==
    [][/\ SingleMapping'
       /\ \A a \in Mocks :
            (RegRegister(a) /\ AgentID(a) \in DOMAIN registry) =>
                /\ lastOp'.err = NoErr
                /\ Cardinality(DOMAIN registry') = Cardinality(DOMAIN registry)
                /\ registry'[AgentID(a)] = a]_vars

\* Get of X after x2 was registered over another agent of that ID
C19_Witness ==
    /\ lastOp.op = "Get"
    /\ lastOp.id = "X"
    /\ lastOp.agent = "x2"
    /\ latest["X"].updated
    /\ "Y" \in DOMAIN registry

(***************************************************************************)
(* Claims about the errors and the single attempt of a delegation.         *)
(***************************************************************************)
\* the error values that are package-level variables, which a caller can
\* compare an error with; an error made by fmt.Errorf at the place of the
\* failure is none of them
ErrorVariables == {ErrCycleDetected, ErrMaxHopsExceeded, ErrAgentNotFound, ErrNoProvider}

\* C12: cycle detected, hop budget exceeded, agent not found and no provider
\* available are errors of four distinct kinds: AgentTool.Execute on a tool
\* without a selectable provider returns an error value of a kind of its
\* own, a refused Check returns ErrCycleDetected or ErrMaxHopsExceeded.
C12_DistinctErrorKinds ==
    [][stack # <<>> =>
        LET e == stack'[Len(stack')].err
        IN  /\ (Top.pc = "select" /\ Top.tool.providers = <<>>) =>
                    /\ e \in ErrorVariables
                    /\ e \notin {ErrCycleDetected, ErrMaxHopsExceeded, ErrAgentNotFound}
            /\ (Top.pc = "check" /\ InCallChain(heap, Top.ctx, Top.prov)) =>
                    e = ErrCycleDetected
            /\ (Top.pc = "check" /\ ~InCallChain(heap, Top.ctx, Top.prov)
                   /\ HopCount(Top.ctx) >= maxHops) =>
                    e = ErrMaxHopsExceeded
            /\ Cardinality({ErrCycleDetected, ErrMaxHopsExceeded, ErrAgentNotFound}) = 3]_vars

\* a tool call has just ended and its message is in the caller's messages
ToolCallEnded == delivered # NoMessage

\* C13 as stated: every AgentTool.Execute call performs exactly one Select
\* and at most one Run.
C13_ExactlyOneSelect ==
    (ToolCallEnded /\ Top.err # "tool not found") =>
        /\ Top.selects = 1
        /\ Top.runs <= 1

\* C13, amended: an AgentTool.Execute call whose parameters parse performs
\* exactly one Select and one whose parameters do not parse performs none;
\* either way Run is invoked at most once, on the selected provider, only
\* when Select and Check succeeded, and after a failure the caller has the
\* error and is past the tool call, whatever other providers the tool holds.
C13_NoRetry ==
    /\ \A i \in 1..Len(stack) :
         /\ stack[i].selects <= 1
         /\ stack[i].runs <= stack[i].selects
    /\ ToolCallEnded =>
         /\ Top.pc = "tools"
         /\ Top.tool = NoTool
         /\ delivered.isError <=> Top.err # NoErr
         /\ Top.selects = IF Top.err \in {"tool not found", "invalid input"} THEN 0 ELSE 1
         /\ Top.runs = IF Top.err \in {NoErr, "agent failed"} THEN 1 ELSE 0

\* the delegation to the one selected provider failed while the tool holds
\* two providers
C13_Witness ==
    /\ stack # <<>>
    /\ delivered = Failure("A", "agent failed")
    /\ tools["A"][1].providers = <<"B", "C">>
    /\ Top.agent = "A"
    /\ Top.selects = 1
    /\ Top.runs = 1

\* C11: a run of the mesh in which a delegation is refused as a cycle
\* (A -> C -> A: A needs writing, which C provides, and C needs research,
\* which A provides) returns ErrCycleDetected to the caller of the mesh.
C11_CycleErrorReturned ==
    (\E a \in Agents : delivered = Failure(a, ErrCycleDetected))
        ~> (Idle /\ outcome.status = "error" /\ outcome.err = ErrCycleDetected)

(***************************************************************************)
(* Claims about preparing again and about a registry that changes between  *)
(* runs.                                                                   *)
(***************************************************************************)
\* this step prepares agent a: PrepareAgent(a), or RunAgent or Run with a
\* found
Prepares(a) ==
    \/ PrepareAgentUpTo(a, Attachable)
    \/ a \in DOMAIN registry /\ RunAgentUpTo(a, Attachable)
    \/ MeshRunUpTo(Attachable) /\ stack' # <<>> /\ stack'[1].agent = a

\* C14: after a preparation of an agent its delegation tools are exactly
\* those that preparation produced, so no two of them have the same name.
C14_PreparingReplaces ==
    [][\A a \in Agents :
          Prepares(a) =>
              /\ tools'[a] \in {InjectTools(Needs(a), found) : found \in Found}
              /\ \A i, j \in 1..Len(tools'[a]) :
                    i # j => ToolName(tools'[a][i].capability)
                                # ToolName(tools'[a][j].capability)]_vars

\* C15: when the agent a run of the mesh started with delegates, the
\* providers it selects among are the agents that are registered for the
\* capability at the time of that run, the registry being changed between
\* runs only: a deregistered provider is not invoked, a registered one is
\* eligible.
C15_TopologyHonored ==
    (stack # <<>> /\ stack[1].pc \in {"select", "check", "prepare", "wait"}) =>
        /\ Range(stack[1].tool.providers)
              = Providers(Registered(registry), stack[1].tool.capability)
        /\ stack[1].pc # "select" => stack[1].prov \in Registered(registry)

\* the call returned ErrAgentNotFound and nothing else changed
NotFoundOnly ==
    /\ outcome' = [NoOutcome EXCEPT !.status = "error", !.err = ErrAgentNotFound]
    /\ UNCHANGED <<registry, tools, stack, heap, delivered, counter>>

\* C20: for an ID that is not registered GetAgent returns ErrAgentNotFound
\* and RunAgent returns it without preparing or running an agent and without
\* changing the registry; Run on an empty registry returns ErrAgentNotFound.
C20_NotFound ==
    [][/\ \A id \in Agents :
            id \notin DOMAIN registry =>
                /\ GetAgent(registry, id).agent = NilAgent
                /\ GetAgent(registry, id).err = ErrAgentNotFound
                /\ RunAgentUpTo(id, Attachable) => NotFoundOnly
       /\ (registry = NewLocal /\ MeshRunUpTo(Attachable)) => NotFoundOnly]_vars

\* RunAgent was asked for B, the one ID that is not registered, after B had
\* been registered (A holds a tool bound to it) and deregistered
C20_Witness ==
    /\ Idle
    /\ outcome.err = ErrAgentNotFound
    /\ DOMAIN registry = {"A", "C"}
    /\ tools["A"] # <<>>
    /\ "B" \in Range(tools["A"][1].providers)

(***************************************************************************)
(* Claims about the order of lookups and about batch registration.         *)
(***************************************************************************)
\* C21: two FindByCapability calls for one capability, and two List calls,
\* with no other call on the registry between them return the agents in
\* the same order.
C21_StableOrder ==
    [][/\ \A cap \in RegCaps :
            (lastOp.op = "FindByCapability" /\ lastOp.cap = cap
               /\ RegFindByCapability(cap)) => lastOp'.result = lastOp.result
       /\ (lastOp.op = "List" /\ RegList) => lastOp'.result = lastOp.result]_vars

(***************************************************************************)
(* Mesh.Register over a registry whose Register can fail: WithRegistry     *)
(* takes any implementation of registry.Registry.  The registry here       *)
(* stores as Local does and refuses the agents in rejects.                 *)
(***************************************************************************)
MaxBatch == 3

\* the error the registry returns when it refuses agent a
RegisterError(a) == "register " \o a \o ": refused"

\* Registry.Register(ctx, agent) error
RegistryRegister(reg, a, rejects) ==
    IF a \in rejects
    THEN [registry |-> reg, err |-> RegisterError(a)]
    ELSE [registry |-> LocalRegister(reg, a), err |-> NoErr]

\* a loop that notes the first error and goes on with the remaining agents
RECURSIVE RegisterEachGoOn(_, _, _)
RegisterEachGoOn(reg, agents, rejects) ==
    IF agents = <<>> THEN [registry |-> reg, err |-> NoErr]
    ELSE LET r == RegistryRegister(reg, Head(agents), rejects)
             rest == RegisterEachGoOn(r.registry, Tail(agents), rejects)
         IN  [registry |-> rest.registry,
              err |-> IF r.err # NoErr THEN r.err ELSE rest.err]

\* for _, a := range agents {
\*     if err := m.registry.Register(ctx, a); err != nil { return err } }
\* return nil
RECURSIVE RegisterEach(_, _, _)
RegisterEach(reg, agents, rejects) ==
    IF agents = <<>> THEN [registry |-> reg, err |-> NoErr]
    ELSE LET r == RegistryRegister(reg, Head(agents), rejects)
         IN  IF r.err # NoErr THEN r
             ELSE RegisterEach(r.registry, Tail(agents), rejects)

\* the argument lists of Mesh.Register: up to MaxBatch different agents
BatchArgs == {agents \in UNION {[1..n -> Mocks] : n \in 0..MaxBatch} : NoDup(agents)}

\* Mesh.Register(agents...) on a mesh built with WithRegistry
MeshRegister(agents, rejects) ==
    /\ Idle
    /\ LET r == RegisterEach(registry, agents, rejects)
       IN  /\ registry' = r.registry
           /\ lastOp' = [NoOp EXCEPT !.op = "Mesh.Register", !.args = agents,
                                     !.rejects = rejects, !.before = registry,
                                     !.err = r.err]
    /\ outcome' = NoOutcome
    /\ UNCHANGED <<heap, maxHops, concVars, ctxVars, latest, tools, balancer, counter,
                   stack, delivered>>

NextRegister ==
    \/ \E agents \in BatchArgs, rejects \in SUBSET Mocks : MeshRegister(agents, rejects)
    \/ \E id \in RegIDs : Deregister(id)

SpecRegister == InitRegistry /\ [][NextRegister]_vars

\* the position of the first agent the registry refuses, 0 when there is none
FirstRejected(agents, rejects) ==
    LET ks == {k \in 1..Len(agents) : agents[k] \in rejects}
    IN  IF ks = {} THEN 0 ELSE CHOOSE k \in ks : \A j \in ks : k <= j

\* how many agents the call handed to the registry with success
Accepted(agents, rejects) ==
    IF FirstRejected(agents, rejects) = 0 THEN Len(agents)
    ELSE FirstRejected(agents, rejects) - 1

\* C22: Mesh.Register(a1, ..., an) registers in argument order and stops at
\* the first failure: it returns the error of the first refused agent ak,
\* the agents before ak are registered (the later of two with one ID wins),
\* and ak and the agents after it are not registered by the call; with no
\* failure it returns nil and all are registered.
C22_NotTransactional ==
    [][LET agents == lastOp'.args
           rejects == lastOp'.rejects
       IN  (lastOp'.op = "Mesh.Register" /\ MeshRegister(agents, rejects)) =>
           LET k == FirstRejected(agents, rejects)
               n == Accepted(agents, rejects)
               last(id) == {i \in 1..n : AgentID(agents[i]) = id
                              /\ \A j \in (i+1)..n : AgentID(agents[j]) # id}
           IN  /\ lastOp'.err = IF k = 0 THEN NoErr ELSE RegisterError(agents[k])
               /\ DOMAIN registry' =
                      DOMAIN registry \cup {AgentID(agents[i]) : i \in 1..n}
               /\ \A id \in DOMAIN registry' :
                      IF last(id) = {} THEN registry'[id] = registry[id]
                      ELSE \A i \in last(id) : registry'[id] = agents[i]]_vars

\* a call whose second agent was refused: the first is newly registered,
\* the third, with another ID, is not
C22_Witness ==
    /\ lastOp.op = "Mesh.Register"
    /\ Len(lastOp.args) = 3
    /\ FirstRejected(lastOp.args, lastOp.rejects) = 2
    /\ lastOp.err = RegisterError(lastOp.args[2])
    /\ lastOp.before = NewLocal
    /\ registry = LocalRegister(NewLocal, lastOp.args[1])
    /\ AgentID(lastOp.args[3]) \notin DOMAIN registry

(***************************************************************************)
(* The balancers on their own: one caller makes consecutive Select calls   *)
(* on one candidate list.  The counter starts anywhere within NearWrap of  *)
(* 0, below it (the top of the uint64 range) or above it.                  *)
(***************************************************************************)
MaxCandidates == 3

NearWrap == 3

\* the candidate lists: up to MaxCandidates different agents
CandidateLists ==
    {agents \in UNION {[1..n -> Agents] : n \in 0..MaxCandidates} : NoDup(agents)}

InitBalancer ==
    /\ heap = [a \in Addrs |-> <<>>]
    /\ maxHops = NewCycleDetector(DefaultMaxHops)
    /\ cur = [w \in Workers |-> Background]
    /\ exp = [w \in Workers |-> [chain |-> <<>>, hops |-> 0]]
    /\ lastCheck = NoCheck
    /\ registry = NewLocal
    /\ tools = [a \in Agents |-> <<>>]
    /\ stack = <<>>
    /\ outcome = NoOutcome
    /\ delivered = NoMessage
    /\ latest = [id \in RegIDs |-> NoEntry]
    /\ mu = NoLocks
    /\ procs = NoProcs
    /\ \E start \in (0 - NearWrap)..NearWrap, kind \in Balancers,
          agents \in CandidateLists :
          /\ counter = start
          /\ balancer = kind
          /\ lastOp = [NoOp EXCEPT !.op = "Select", !.args = agents]

\* b.Select(agents) by the one caller; a panic ends the caller
BalancerSelect(r) ==
    /\ lastOp.op = "Select"
    /\ lastOp.err = NoErr
    /\ Len(lastOp.result) < MaxCandidates
    /\ r < Len(lastOp.args) \/ r = 0
    /\ balancer = "random" \/ r = 0
    /\ LET sel == Select(balancer, counter, lastOp.args, r)
       IN  /\ counter' = sel.counter
           /\ lastOp' = IF sel.panic THEN [lastOp EXCEPT !.err = "panic"]
                        ELSE [lastOp EXCEPT !.result = Append(@, sel.agent)]
    /\ UNCHANGED <<heap, maxHops, concVars, ctxVars, latest, registry, tools, balancer,
                   stack, outcome, delivered>>

NextBalancer == \E r \in 0..(MaxCandidates - 1) : BalancerSelect(r)

SpecBalancer == InitBalancer /\ [][NextBalancer]_vars

\* how often agent a was selected
Selected(a) == Cardinality({i \in 1..Len(lastOp.result) : lastOp.result[i] = a})

\* C23: whatever value the counter starts from, N consecutive Select calls
\* of the round-robin balancer on one list of N candidates return each
\* candidate exactly once.
C23_EachExactlyOnce ==
    (/\ balancer = "roundrobin"
     /\ lastOp.args # <<>>
     /\ Len(lastOp.result) = Len(lastOp.args))
        => \A a \in Range(lastOp.args) : Selected(a) = 1

\* C26: with every balancer a mesh can be built with, the serve command's
\* random balancer included, Select on a non-empty list does not crash and
\* returns an element of the list.
C26_SelectsAnElement ==
    (lastOp.op = "Select" /\ lastOp.args # <<>>)
        => /\ lastOp.err = NoErr
           /\ \A i \in 1..Len(lastOp.result) : lastOp.result[i] \in Range(lastOp.args)

\* C25: Select on an empty provider list returns nil with the round-robin,
\* the first and both random balancers, without a panic, and
\* AgentTool.Execute then returns the no-provider-available error: the guard
\* is not asked, no provider runs, the counter does not move, and the error
\* reaches the calling agent as one tool message.
C25_EmptyListNoProvider ==
    [][(/\ stack # <<>>
        /\ Top.pc = "select"
        /\ Top.tool.providers = <<>>
        /\ \E r \in 0..(Cardinality(Agents) - 1) : ExecSelect(r))
          => /\ outcome' = outcome
             /\ counter' = counter
             /\ lastCheck' = lastCheck
             /\ Len(stack') = Len(stack)
             /\ stack'[Len(stack')].pc = "tools"
             /\ stack'[Len(stack')].err = "no provider available"
             /\ stack'[Len(stack')].runs = 0
             /\ delivered' = [agent |-> Top.agent, isError |-> TRUE,
                              content |-> "no provider available"]]_vars

\* the serve command's random balancer was asked to select from an empty
\* list and the agent got the no-provider message
C25_Witness ==
    /\ balancer = "random(nil)"
    /\ stack # <<>>
    /\ Top.err = "no provider available"
    /\ Top.selects = 1
    /\ delivered.isError
    /\ delivered.content = "no provider available"

(***************************************************************************)
(* Concurrent Select calls on one RoundRobinBalancer: as many goroutines   *)
(* as the list has candidates, each inside Select(agents) on that list.    *)
(* The balancer has served up to NearWrap calls before.                    *)
(***************************************************************************)
\* a goroutine that has just called Select
NewSelect == [op |-> "Select", pc |-> "call", seen |-> 0, idx |-> 0, agent |-> NilAgent]

InitSelects ==
    /\ heap = [a \in Addrs |-> <<>>]
    /\ maxHops = NewCycleDetector(DefaultMaxHops)
    /\ cur = [w \in Workers |-> Background]
    /\ exp = [w \in Workers |-> [chain |-> <<>>, hops |-> 0]]
    /\ lastCheck = NoCheck
    /\ registry = NewLocal
    /\ tools = [a \in Agents |-> <<>>]
    /\ stack = <<>>
    /\ outcome = NoOutcome
    /\ delivered = NoMessage
    /\ latest = [id \in RegIDs |-> NoEntry]
    /\ mu = NoLocks
    /\ balancer = "roundrobin"
    /\ counter \in 0..NearWrap
    /\ \E agents \in CandidateLists \ {<<>>} :
          /\ lastOp = [NoOp EXCEPT !.op = "Select", !.args = agents]
          /\ procs = [g \in 1..Len(agents) |-> NewSelect]

\* an increment that writes back the value the goroutine read earlier
AddUint64Stale(cnt, seen) == [counter |-> seen + 1, new |-> seen + 1]

\* atomic.AddUint64(&b.counter, 1): one indivisible read-modify-write that
\* returns the new value, whatever the goroutine has seen before
AddUint64(cnt, seen) == [counter |-> cnt + 1, new |-> cnt + 1]

\* Select entered: if len(agents) == 0 { return nil }; seen is the counter
\* as a read at this point would find it
SelectCall(g) ==
    /\ g \in DOMAIN procs
    /\ procs[g].op = "Select"
    /\ procs[g].pc = "call"
    /\ procs' = [procs EXCEPT ![g] =
                   IF Len(lastOp.args) = 0 THEN [@ EXCEPT !.pc = "done"]
                   ELSE [@ EXCEPT !.pc = "add", !.seen = counter]]
    /\ UNCHANGED <<heap, maxHops, mu, ctxVars, regVars, registry, tools, balancer,
                   counter, stack, outcome, delivered>>

\* idx := atomic.AddUint64(&b.counter, 1) - 1
\* return agents[idx%uint64(len(agents))]
SelectAdd(g) ==
    /\ g \in DOMAIN procs
    /\ procs[g].op = "Select"
    /\ procs[g].pc = "add"
    /\ LET r == AddUint64(counter, procs[g].seen)
           idx == r.new - 1
       IN  /\ counter' = r.counter
           /\ procs' = [procs EXCEPT ![g] =
                  [@ EXCEPT !.pc = "done", !.idx = idx,
                            !.agent = lastOp.args[UintMod(idx, Len(lastOp.args)) + 1]]]
    /\ UNCHANGED <<heap, maxHops, mu, ctxVars, regVars, registry, tools, balancer,
                   stack, outcome, delivered>>

NextSelects ==
    \/ \E g \in 1..MaxCandidates : SelectCall(g)
    \/ \E g \in 1..MaxCandidates : SelectAdd(g)

SpecSelects == InitSelects /\ [][NextSelects]_vars

\* the goroutines whose Select has returned
Returned == {g \in DOMAIN procs : procs[g].pc = "done"}

ClientContexts == {Background, WithTraceID(Background, "trace-1")}

\* Mesh.RunAgent(ctx, agentID, input); lastOp notes the call and the trace ID
\* the client's context carried
RunAgentCtx(ctx, agentID) ==
    /\ RunAgentFrom(ctx, UUIDs, agentID, ToolLimit)
    /\ lastOp' = [NoOp EXCEPT !.op = "RunAgent", !.id = agentID, !.trace = TraceID(ctx)]
    /\ UNCHANGED concVars

\* Mesh.Run(ctx, task)
MeshRunCtx(ctx) ==
    /\ MeshRunFrom(ctx, UUIDs, ToolLimit)
    /\ lastOp' = [NoOp EXCEPT !.op = "Run", !.trace = TraceID(ctx)]

NextTrace ==
    \/ \E agents \in Batches : Register(agents)
    \/ \E ctx \in ClientContexts, a \in Agents : RunAgentCtx(ctx, a)
    \/ \E ctx \in ClientContexts : MeshRunCtx(ctx)
    \/ RunStep

SpecTrace == InitTopology /\ [][NextTrace]_vars

\* every Agent.Run in progress, and every context handed to a provider,
\* carries trace ID t
OneTrace(st, t) ==
    \A i \in 1..Len(st) :
        /\ TraceID(st[i].ctx) = t
        /\ st[i].pc = "wait" => TraceID(st[i].tctx) = t

\* C30: Mesh.RunAgent and Mesh.Run keep the trace ID of the caller's
\* context when it carries one and otherwise generate a non-empty one;
\* every agent that runs inside the invocation, the providers entered by
\* delegation included, sees that one trace ID, and the Result returned
\* carries it.
C30_OneTraceID ==
    [][/\ stack' # <<>> =>
            /\ TraceID(stack'[1].ctx) # ""
            /\ lastOp'.trace # "" => TraceID(stack'[1].ctx) = lastOp'.trace
            /\ OneTrace(stack', TraceID(stack'[1].ctx))
       /\ (stack # <<>> /\ stack' = <<>> /\ outcome'.status = "ok") =>
            outcome'.trace = TraceID(stack[1].ctx)]_vars

\* a provider entered by delegation runs under the trace ID the client gave
C30_Witness ==
    /\ lastOp.op = "RunAgent"
    /\ lastOp.trace = "trace-1"
    /\ Len(stack) >= 2
    /\ Top.pc = "chat"
    /\ TraceID(Top.ctx) = "trace-1"

(***************************************************************************)
(* sync.RWMutex, as far as the callers can tell: Lock waits until there is *)
(* no writer and no reader, RLock until there is no writer.                *)
(***************************************************************************)
\* a Lock that does not wait for the readers to leave
CanLockAmongReaders(m) == m.writer = 0

CanLock(m) == m.writer = 0 /\ m.readers = {}

Lock(m, g) == [m EXCEPT !.writer = g]

Unlock(m, g) == [m EXCEPT !.writer = 0]

CanRLock(m) == m.writer = 0

RLock(m, g) == [m EXCEPT !.readers = @ \cup {g}]

RUnlock(m, g) == [m EXCEPT !.readers = @ \ {g}]

(***************************************************************************)
(* registry.Local called by several goroutines at once.  Every method is   *)
(* lock, body, deferred unlock; the range loops of List and                *)
(* FindByCapability visit one map entry per step.                          *)
(***************************************************************************)
MaxGoroutines == 2

\* a goroutine outside every call
NoCall ==
    [op |-> "", pc |-> "idle", arg |-> "", visited |-> {}, result |-> <<>>,
     err |-> NoErr, snap |-> NewLocal]

\* the calls the goroutines make, with their arguments
LocalCalls ==
    {[NoCall EXCEPT !.op = "Register", !.arg = a, !.pc = "lock"] : a \in Mocks}
    \cup {[NoCall EXCEPT !.op = "Deregister", !.arg = id, !.pc = "lock"] : id \in RegIDs}
    \cup {[NoCall EXCEPT !.op = "Get", !.arg = id, !.pc = "rlock"] : id \in RegIDs}
    \cup {[NoCall EXCEPT !.op = "List", !.pc = "rlock"]}
    \cup {[NoCall EXCEPT !.op = "FindByCapability", !.arg = "research", !.pc = "rlock"]}

InitLocal ==
    /\ heap = [a \in Addrs |-> <<>>]
    /\ maxHops = NewCycleDetector(DefaultMaxHops)
    /\ cur = [w \in Workers |-> Background]
    /\ exp = [w \in Workers |-> [chain |-> <<>>, hops |-> 0]]
    /\ lastCheck = NoCheck
    /\ balancer = "roundrobin"
    /\ registry = NewLocal
    /\ tools = [a \in Agents |-> <<>>]
    /\ counter = 0
    /\ stack = <<>>
    /\ outcome = NoOutcome
    /\ delivered = NoMessage
    /\ lastOp = NoOp
    /\ latest = [id \in RegIDs |-> NoEntry]
    /\ mu = NoLocks
    /\ procs = [g \in 1..MaxGoroutines |-> NoCall]

\* goroutine g calls a method of the registry
LocalCall(g, call) ==
    /\ procs[g].pc = "idle"
    /\ procs' = [procs EXCEPT ![g] = call]
    /\ UNCHANGED <<heap, maxHops, mu, ctxVars, regVars, meshVars>>

\* r.mu.Lock() of Register and Deregister
LocalLock(g) ==
    /\ procs[g].pc = "lock"
    /\ CanLock(mu.registry)
    /\ mu' = [mu EXCEPT !.registry = Lock(@, g)]
    /\ procs' = [procs EXCEPT ![g].pc = "write"]
    /\ UNCHANGED <<heap, maxHops, ctxVars, regVars, meshVars>>

\* r.agents[agent.ID()] = agent, or delete(r.agents, agentID)
LocalWrite(g) ==
    /\ procs[g].pc = "write"
    /\ registry' = IF procs[g].op = "Register"
                   THEN LocalRegister(registry, procs[g].arg)
                   ELSE LocalDeregister(registry, procs[g].arg)
    /\ procs' = [procs EXCEPT ![g].pc = "unlock"]
    /\ UNCHANGED <<heap, maxHops, mu, ctxVars, regVars, tools, balancer, counter, stack,
                   outcome, delivered>>

\* the deferred r.mu.Unlock(); the method returns nil
LocalUnlock(g) ==
    /\ procs[g].pc = "unlock"
    /\ mu' = [mu EXCEPT !.registry = Unlock(@, g)]
    /\ procs' = [procs EXCEPT ![g] = NoCall]
    /\ UNCHANGED <<heap, maxHops, ctxVars, regVars, meshVars>>

\* r.mu.RLock() of Get, List and FindByCapability; snap is the map as it is
\* when the lock is granted
LocalRLock(g) ==
    /\ procs[g].pc = "rlock"
    /\ CanRLock(mu.registry)
    /\ mu' = [mu EXCEPT !.registry = RLock(@, g)]
    /\ procs' = [procs EXCEPT ![g].pc = "read", ![g].snap = registry]
    /\ UNCHANGED <<heap, maxHops, ctxVars, regVars, meshVars>>

\* Get: agent, ok := r.agents[agentID]
LocalGet(g) ==
    /\ procs[g].pc = "read"
    /\ procs[g].op = "Get"
    /\ LET r == Get(registry, procs[g].arg)
       IN  procs' = [procs EXCEPT ![g].pc = "runlock",
                                  ![g].err = r.err,
                                  ![g].result = IF r.err = NoErr THEN <<r.agent>>
                                                ELSE <<>>]
    /\ UNCHANGED <<heap, maxHops, mu, ctxVars, regVars, meshVars>>

\* one round of `for _, agent := range r.agents` in List or FindByCapability:
\* an entry the loop has not visited yet
LocalRange(g, id) ==
    /\ procs[g].pc = "read"
    /\ procs[g].op \in {"List", "FindByCapability"}
    /\ id \in DOMAIN registry \ procs[g].visited
    /\ LET n == IF procs[g].op = "List" THEN 1
                ELSE Matches(Provides(registry[id]), procs[g].arg)
       IN  procs' = [procs EXCEPT ![g].visited = @ \cup {id},
                                  ![g].result = @ \o [i \in 1..n |-> registry[id]]]
    /\ UNCHANGED <<heap, maxHops, mu, ctxVars, regVars, meshVars>>

\* the range loop has visited every entry
LocalRangeEnd(g) ==
    /\ procs[g].pc = "read"
    /\ procs[g].op \in {"List", "FindByCapability"}
    /\ DOMAIN registry \subseteq procs[g].visited
    /\ procs' = [procs EXCEPT ![g].pc = "runlock"]
    /\ UNCHANGED <<heap, maxHops, mu, ctxVars, regVars, meshVars>>

\* the deferred r.mu.RUnlock(); the method returns its result
LocalRUnlock(g) ==
    /\ procs[g].pc = "runlock"
    /\ mu' = [mu EXCEPT !.registry = RUnlock(@, g)]
    /\ procs' = [procs EXCEPT ![g] = NoCall]
    /\ UNCHANGED <<heap, maxHops, ctxVars, regVars, meshVars>>

NextLocal ==
    \E g \in 1..MaxGoroutines :
        \/ \E call \in LocalCalls : LocalCall(g, call)
        \/ LocalLock(g)
        \/ LocalWrite(g)
        \/ LocalUnlock(g)
        \/ LocalRLock(g)
        \/ LocalGet(g)
        \/ \E id \in RegIDs : LocalRange(g, id)
        \/ LocalRangeEnd(g)
        \/ LocalRUnlock(g)

SpecLocal == InitLocal /\ [][NextLocal]_vars

\* the goroutines between Lock and Unlock, and between RLock and RUnlock
Writing == {g \in DOMAIN procs : procs[g].pc \in {"write", "unlock"}}

Reading == {g \in DOMAIN procs : procs[g].pc \in {"read", "runlock"}}

\* what the method of goroutine g returns from the map reg
ReadsFrom(g, reg) ==
    CASE procs[g].op = "Get" ->
            /\ procs[g].err = Get(reg, procs[g].arg).err
            /\ procs[g].result = IF procs[g].arg \in DOMAIN reg
                                 THEN <<reg[procs[g].arg]>> ELSE <<>>
      [] procs[g].op = "List" ->
            procs[g].result \in {List(o) : o \in Orders(Registered(reg))}
      [] procs[g].op = "FindByCapability" ->
            procs[g].result \in {FindByCapability(o, procs[g].arg) :
                                    o \in Orders(Registered(reg))}

\* C27: in every interleaving of Register, Deregister, Get, List and
\* FindByCapability calls at most one goroutine is between Lock and Unlock,
\* and then none is between RLock and RUnlock; the map does not change
\* while a reader is inside, and what a read returns is the answer from the
\* map as it was when the reader got the lock, which is the map before or
\* after each write, never a mixture.
C27_ReaderWriterDiscipline ==
    /\ Cardinality(Writing) <= 1
    /\ Writing # {} => Reading = {}
    /\ \A g \in Reading :
          /\ procs[g].snap = registry
          /\ procs[g].pc = "runlock" => ReadsFrom(g, procs[g].snap)

\* one goroutine is about to return a List of two agents, still holding the
\* read lock, while the Register of the other waits for the lock
C27_Witness ==
    /\ procs[1].op = "List"
    /\ procs[1].pc = "runlock"
    /\ Len(procs[1].result) = 2
    /\ procs[2].op = "Register"
    /\ procs[2].pc = "lock"

(***************************************************************************)
(* The mesh called by two goroutines, as the HTTP server does with one     *)
(* goroutine per request.  Goroutine 1, the runner, calls RunAgent; its    *)
(* Agent.Run calls are the stack.  Goroutine 2 calls Mesh.Register and     *)
(* Mesh.PrepareAgent.  Every lock operation is a step of its own, except   *)
(* a lock that is taken and released around a single map access.           *)
(***************************************************************************)
Runner == 1

\* the goroutines that call Mesh.Register and Mesh.PrepareAgent
Callers == {2}

InitCallers ==
    /\ heap = [a \in Addrs |-> <<>>]
    /\ maxHops = NewCycleDetector(1)
    /\ balancer = "random"
    /\ cur = [w \in Workers |-> Background]
    /\ exp = [w \in Workers |-> [chain |-> <<>>, hops |-> 0]]
    /\ lastCheck = NoCheck
    /\ registry = NewLocal
    /\ tools = [a \in Agents |-> <<>>]
    /\ counter = 0
    /\ stack = <<>>
    /\ outcome = NoOutcome
    /\ delivered = NoMessage
    /\ lastOp = NoOp
    /\ latest = [id \in RegIDs |-> NoEntry]
    /\ mu = NoLocks
    /\ procs = <<NoCall, NoCall>>

\* a PrepareAgent that returns with m.mu still read-locked
AfterPrepareAgentKeep(m, g) == m

\* PrepareAgent returns: the deferred m.mu.RUnlock() runs
AfterPrepareAgent(m, g) == RUnlock(m, g)

\* Mesh.RunAgent by the runner, as far as PrepareAgent's m.mu.RLock():
\* GetAgent has taken and released m.mu and r.mu around its lookup
CallerRunAgent(agentID) ==
    /\ Idle
    /\ procs[Runner].pc \in {"idle", "run"}
    /\ CanRLock(mu.mesh)
    /\ CanRLock(mu.registry)
    /\ IF GetAgent(registry, agentID).err # NoErr
       THEN /\ outcome' = [NoOutcome EXCEPT !.status = "error",
                                            !.err = GetAgent(registry, agentID).err]
            /\ procs' = [procs EXCEPT ![Runner] = NoCall]
            /\ UNCHANGED mu
       ELSE /\ outcome' = NoOutcome
            /\ procs' = [procs EXCEPT ![Runner] =
                           [NoCall EXCEPT !.op = "RunAgent", !.pc = "prepare",
                                          !.arg = GetAgent(registry, agentID).agent]]
            /\ mu' = [mu EXCEPT !.mesh = RLock(@, Runner)]
    /\ UNCHANGED <<heap, maxHops, ctxVars, regVars, registry, tools, balancer, counter,
                   stack, delivered>>

\* the rest of the runner's PrepareAgent - InjectTools under r.mu, AddTools
\* under a.mu, the deferred RUnlock - and then a.Run(ctx, input) is called
CallerRun ==
    /\ procs[Runner].pc = "prepare"
    /\ CanRLock(mu.registry)
    /\ CanLock(mu.agent[procs[Runner].arg])
    /\ \E found \in Found :
         /\ Len(Prepared(procs[Runner].arg, found)[procs[Runner].arg])
                <= Attachable[procs[Runner].arg]
         /\ tools' = Prepared(procs[Runner].arg, found)
    /\ \E uuid \in UUIDs :
         stack' = <<NewFrame(procs[Runner].arg, EnsureTraceID(Background, uuid))>>
    /\ mu' = [mu EXCEPT !.mesh = AfterPrepareAgent(@, Runner)]
    /\ procs' = [procs EXCEPT ![Runner].pc = "run"]
    /\ UNCHANGED <<heap, maxHops, ctxVars, regVars, registry, balancer, counter, outcome,
                   delivered>>

\* goroutine g calls Mesh.Register(agents...)
CallRegister(g, agents) ==
    /\ procs[g].pc = "idle"
    /\ procs' = [procs EXCEPT ![g] =
                   [NoCall EXCEPT !.op = "Register", !.pc = "lock", !.result = agents]]
    /\ UNCHANGED <<heap, maxHops, mu, ctxVars, regVars, meshVars>>

\* Mesh.Register: m.mu.Lock()
RegisterLock(g) ==
    /\ procs[g].op = "Register"
    /\ procs[g].pc = "lock"
    /\ CanLock(mu.mesh)
    /\ mu' = [mu EXCEPT !.mesh = Lock(@, g)]
    /\ procs' = [procs EXCEPT ![g].pc = "write"]
    /\ UNCHANGED <<heap, maxHops, ctxVars, regVars, meshVars>>

\* Mesh.Register: the loop of registry.Register calls, each under r.mu
RegisterWrite(g) ==
    /\ procs[g].op = "Register"
    /\ procs[g].pc = "write"
    /\ CanLock(mu.registry)
    /\ registry' = RegisterAll(registry, procs[g].result)
    /\ procs' = [procs EXCEPT ![g].pc = "unlock"]
    /\ UNCHANGED <<heap, maxHops, mu, ctxVars, regVars, tools, balancer, counter, stack,
                   outcome, delivered>>

\* Mesh.Register: the deferred m.mu.Unlock()
RegisterUnlock(g) ==
    /\ procs[g].op = "Register"
    /\ procs[g].pc = "unlock"
    /\ mu' = [mu EXCEPT !.mesh = Unlock(@, g)]
    /\ procs' = [procs EXCEPT ![g] = NoCall]
    /\ UNCHANGED <<heap, maxHops, ctxVars, regVars, meshVars>>

\* goroutine g calls Mesh.PrepareAgent(ctx, a) with an agent of the registry
CallPrepareAgent(g, a) ==
    /\ procs[g].pc = "idle"
    /\ a \in Registered(registry)
    /\ procs' = [procs EXCEPT ![g] =
                   [NoCall EXCEPT !.op = "PrepareAgent", !.pc = "rlock", !.arg = a]]
    /\ UNCHANGED <<heap, maxHops, mu, ctxVars, regVars, meshVars>>

\* PrepareAgent: m.mu.RLock()
PrepareRLock(g) ==
    /\ procs[g].op = "PrepareAgent"
    /\ procs[g].pc = "rlock"
    /\ CanRLock(mu.mesh)
    /\ mu' = [mu EXCEPT !.mesh = RLock(@, g)]
    /\ procs' = [procs EXCEPT ![g].pc = "inject"]
    /\ UNCHANGED <<heap, maxHops, ctxVars, regVars, meshVars>>

\* PrepareAgent: tools, err := m.injector.InjectTools(ctx, a), with
\* FindByCapability under r.mu
PrepareInject(g) ==
    /\ procs[g].op = "PrepareAgent"
    /\ procs[g].pc = "inject"
    /\ CanRLock(mu.registry)
    /\ \E found \in Found :
         procs' = [procs EXCEPT ![g].pc = "addtools",
                                ![g].result = InjectTools(Needs(procs[g].arg), found)]
    /\ UNCHANGED <<heap, maxHops, mu, ctxVars, regVars, meshVars>>

\* AddTools: a.mu.Lock()
AddToolsLock(g) ==
    /\ procs[g].op = "PrepareAgent"
    /\ procs[g].pc = "addtools"
    /\ CanLock(mu.agent[procs[g].arg])
    /\ Len(tools[procs[g].arg]) + Len(procs[g].result) <= Attachable[procs[g].arg]
    /\ mu' = [mu EXCEPT !.agent[procs[g].arg] = Lock(@, g)]
    /\ procs' = [procs EXCEPT ![g].pc = "append"]
    /\ UNCHANGED <<heap, maxHops, ctxVars, regVars, meshVars>>

\* AddTools: a.tools = append(a.tools, tools...), then the deferred
\* a.mu.Unlock()
AddToolsAppend(g) ==
    /\ procs[g].op = "PrepareAgent"
    /\ procs[g].pc = "append"
    /\ tools' = [tools EXCEPT ![procs[g].arg] = @ \o procs[g].result]
    /\ mu' = [mu EXCEPT !.agent[procs[g].arg] = Unlock(@, g)]
    /\ procs' = [procs EXCEPT ![g].pc = "runlock"]
    /\ UNCHANGED <<heap, maxHops, ctxVars, regVars, registry, balancer, counter, stack,
                   outcome, delivered>>

\* PrepareAgent: the deferred m.mu.RUnlock()
PrepareRUnlock(g) ==
    /\ procs[g].op = "PrepareAgent"
    /\ procs[g].pc = "runlock"
    /\ mu' = [mu EXCEPT !.mesh = RUnlock(@, g)]
    /\ procs' = [procs EXCEPT ![g] = NoCall]
    /\ UNCHANGED <<heap, maxHops, ctxVars, regVars, meshVars>>

\* the Run on top of the stack is about to read a.tools (buildToolDefinitions
\* when it enters, executeTool for a tool call) and holds no lock for it,
\* while a goroutine is inside AddTools of the same agent
ToolsRace ==
    /\ stack # <<>>
    /\ \/ Top.pc = "enter"
       \/ Top.pc = "tools" /\ Top.pending > 0
    /\ \E g \in DOMAIN procs : procs[g].pc = "append" /\ procs[g].arg = Top.agent

\* the read overlaps the append: besides the list before or after it, which
\* the other steps cover, the read can see a slice header that is half
\* written, and indexing it panics
TornToolsRead ==
    /\ ToolsRace
    /\ stack' = <<>>
    /\ heap' = Collect(heap, {})
    /\ outcome' = [NoOutcome EXCEPT !.status = "panic"]
    /\ delivered' = NoMessage
    /\ UNCHANGED <<maxHops, concVars, ctxVars, regVars, registry, tools, balancer, counter>>

NextCallers ==
    \/ CallerRunAgent("A")
    \/ CallerRun
    \/ RunStep
    \/ TornToolsRead
    \/ \E g \in Callers :
          \/ \E agents \in Batches : CallRegister(g, agents)
          \/ RegisterLock(g)
          \/ RegisterWrite(g)
          \/ RegisterUnlock(g)
          \/ CallPrepareAgent(g, "A")
          \/ PrepareRLock(g)
          \/ PrepareInject(g)
          \/ AddToolsLock(g)
          \/ AddToolsAppend(g)
          \/ PrepareRUnlock(g)

SpecCallers == InitCallers /\ [][NextCallers]_vars

\* the mutexes of mesh and registry that goroutine g holds
Holds(g) ==
    {m \in {"mesh", "registry"} : mu[m].writer = g \/ g \in mu[m].readers}

\* C28: while an Agent.Run is executing - the root agent's or a provider's
\* entered through a delegation tool - the goroutine running it holds
\* neither Mesh.mu nor the registry's mutex, so that a Mesh.Register or a
\* registry write finds them free unless another call, not the Run, is
\* inside its own short section.
C28_NoLockAcrossRun ==
    stack # <<>> =>
        /\ Holds(Runner) = {}
        /\ (\A g \in Callers : procs[g].pc \in {"idle", "lock"})
              => CanLock(mu.mesh) /\ CanLock(mu.registry)

\* a provider's Run, entered by delegation, is in progress and Mesh.Register
\* of the other goroutine has got the lock and written the registry
C28_Witness ==
    /\ Len(stack) = 2
    /\ Top.pc = "chat"
    /\ procs[2].op = "Register"
    /\ procs[2].pc = "unlock"
    /\ mu.mesh.writer = 2

\* C29: concurrent Mesh.RunAgent and PrepareAgent calls on one agent never
\* have one call inside the write of the agent's tool list while a Run of
\* that agent reads the list without holding the agent's mutex.
C29_NoUnsynchronizedToolsAccess == ~ToolsRace

(***************************************************************************)
(* The guard under every configured limit: a mesh is built with           *)
(* WithMaxHops(n) for n on both sides of zero, and a context is walked     *)
(* past the default limit.                                                 *)
(***************************************************************************)
MaxHopCount == 11

ConfiguredHops == (0 - MaxHopsOpt)..MaxHopsOpt

\* mesh.New(): cycleDetector := NewCycleDetector(DefaultMaxHops)
InitDetector ==
    /\ InitCtx
    /\ maxHops = NewCycleDetector(DefaultMaxHops)

\* mesh.New(WithMaxHops(n)): m.cycleDetector = NewCycleDetector(n); the
\* constructor returns no error
WithMaxHops(n) ==
    /\ maxHops' = NewCycleDetector(n)
    /\ lastOp' = [NoOp EXCEPT !.op = "NewCycleDetector", !.args = n]
    /\ lastCheck' = NoCheck
    /\ UNCHANGED <<heap, cur, exp, meshVars, latest, concVars>>

\* ctx = core.WithHopCount(ctx), as far as the default limit and one beyond
DetectorHop(w) ==
    /\ HopCount(cur[w]) < MaxHopCount
    /\ cur' = [cur EXCEPT ![w] = WithHopCount(cur[w])]
    /\ exp' = [exp EXCEPT ![w].hops = exp[w].hops + 1]
    /\ lastCheck' = NoCheck
    /\ UNCHANGED <<heap, maxHops, concVars, meshVars, regVars>>

NextDetector ==
    \/ \E n \in ConfiguredHops : WithMaxHops(n)
    \/ DetectorHop(1)
    \/ \E id \in {"A", "B"} : CtxWithCallChain(1, id)
    \/ \E id \in {"A", "B", "C"} : CtxCheck(1, id)

SpecDetector == InitDetector /\ [][NextDetector]_vars

\* what a guard with the limit n answers
Answer(n) ==
    IF lastCheck.id \in Range(lastCheck.chain) THEN ErrCycleDetected
    ELSE IF lastCheck.hops >= n THEN ErrMaxHopsExceeded
    ELSE NoErr

\* C31: a guard constructed with a non-positive maxHops answers every Check
\* as a guard with the limit 10 does, a guard constructed with a positive n
\* answers with the limit n, and the construction returns no error.
C31_MaxHopsClamp ==
    lastOp.op = "NewCycleDetector" =>
        /\ lastOp.err = NoErr
        /\ maxHops = (IF lastOp.args <= 0 THEN 10 ELSE lastOp.args)
        /\ lastCheck.op = "Check" =>
              lastCheck.err = Answer(IF lastOp.args <= 0 THEN 10 ELSE lastOp.args)

C31_Witness ==
    /\ lastOp.op = "NewCycleDetector"
    /\ lastOp.args < 0
    /\ lastCheck.op = "Check"
    /\ lastCheck.hops = 10
    /\ lastCheck.err = ErrMaxHopsExceeded

\* C35: Check tests the call chain before the hop count: a candidate that is
\* in the chain gets the cycle error even when the hop count has reached
\* maxHops, and Check returns nil exactly when the candidate is not in the
\* chain and the hop count is below maxHops.
C35_CycleBeforeHops ==
    lastCheck.op = "Check" =>
        /\ (lastCheck.id \in Range(lastCheck.chain) /\ lastCheck.hops >= maxHops)
              => lastCheck.err = ErrCycleDetected
        /\ lastCheck.err = NoErr <=>
              (lastCheck.id \notin Range(lastCheck.chain) /\ lastCheck.hops < maxHops)

C35_Witness ==
    /\ lastCheck.op = "Check"
    /\ lastCheck.id \in Range(lastCheck.chain)
    /\ lastCheck.hops >= maxHops
    /\ lastCheck.err = ErrCycleDetected

(***************************************************************************)
(* pkg/patterns.  A pattern runs agents it was built over; here an agent   *)
(* is a name, a text is the sequence of the agents that wrote it (after    *)
(* the caller's "in"), and each Run either returns its output or fails     *)
(* with the agent's own error.                                             *)
(***************************************************************************)
ErrEmptyPipeline == "pipeline has no agents"

MaxPipeline == 3

\* (*core.Result)(nil)
NilResult == <<>>

UserInput == <<"in">>

\* result.Output of a successful agent.Run(ctx, input)
Output(a, input) == Append(input, a)

\* the error of a failing agent.Run
RunError(a) == a \o ": run failed"

\* one pattern call: its receiver's agents, its input, its position, the
\* agent.Run calls it has made, and what it returned
NoRun ==
    [op |-> "", pc |-> "idle", agents |-> <<>>, input |-> NilResult, i |-> 0,
     currentInput |-> NilResult, ran |-> <<>>, result |-> NilResult,
     err |-> NoErr]

InitPattern(p) ==
    /\ heap = [a \in Addrs |-> <<>>]
    /\ maxHops = NewCycleDetector(DefaultMaxHops)
    /\ cur = [w \in Workers |-> Background]
    /\ exp = [w \in Workers |-> [chain |-> <<>>, hops |-> 0]]
    /\ lastCheck = NoCheck
    /\ balancer = "roundrobin"
    /\ registry = NewLocal
    /\ tools = [a \in Agents |-> <<>>]
    /\ counter = 0
    /\ stack = <<>>
    /\ outcome = NoOutcome
    /\ delivered = NoMessage
    /\ lastOp = NoOp
    /\ latest = [id \in RegIDs |-> NoEntry]
    /\ mu = NoLocks
    /\ procs = p

Pipelines == UNION {[1..n -> Agents] : n \in 0..MaxPipeline}

InitSequential == InitPattern(<<NoRun>>)

\* an iteration that goes on to the next agent after an error
SequentialIterGoOn(p, ok) ==
    LET agent == p.agents[p.i]
        err == IF ok THEN NoErr ELSE RunError(agent)
        out == IF ok THEN Output(agent, p.currentInput) ELSE p.currentInput
        ran == Append(p.ran, [agent |-> agent, input |-> p.currentInput, err |-> err])
    IN  IF p.i < Len(p.agents)
        THEN [p EXCEPT !.ran = ran, !.currentInput = out, !.i = p.i + 1]
        ELSE [p EXCEPT !.ran = ran, !.pc = "done", !.result = out]

\* one iteration of  for _, agent := range s.agents  and, after the last
\* one, the return
SequentialIter(p, ok) ==
    LET agent == p.agents[p.i]
        err == IF ok THEN NoErr ELSE RunError(agent)
        out == Output(agent, p.currentInput)
        ran == Append(p.ran, [agent |-> agent, input |-> p.currentInput, err |-> err])
    IN  IF ~ok
        THEN [p EXCEPT !.ran = ran, !.pc = "done", !.result = NilResult, !.err = err]
        ELSE IF p.i < Len(p.agents)
        THEN [p EXCEPT !.ran = ran, !.currentInput = out, !.i = p.i + 1]
        ELSE [p EXCEPT !.ran = ran, !.pc = "done", !.result = out]

\* s.Run(ctx, input) up to its loop
SequentialRun(agents) ==
    /\ procs[1].pc # "loop"
    /\ procs' = [procs EXCEPT ![1] =
           IF Len(agents) = 0
           THEN [NoRun EXCEPT !.op = "Sequential.Run", !.pc = "done",
                              !.input = UserInput, !.err = ErrEmptyPipeline]
           ELSE [NoRun EXCEPT !.op = "Sequential.Run", !.pc = "loop",
                              !.agents = agents, !.input = UserInput,
                              !.i = 1, !.currentInput = UserInput]]
    /\ UNCHANGED <<heap, maxHops, mu, ctxVars, regVars, meshVars>>

\* result, err := agent.Run(ctx, currentInput)
SequentialAgentRun(ok) ==
    /\ procs[1].pc = "loop"
    /\ procs' = [procs EXCEPT ![1] = SequentialIter(procs[1], ok)]
    /\ UNCHANGED <<heap, maxHops, mu, ctxVars, regVars, meshVars>>

NextSequential ==
    \/ \E agents \in Pipelines : SequentialRun(agents)
    \/ \E ok \in BOOLEAN : SequentialAgentRun(ok)

SpecSequential == InitSequential /\ [][NextSequential]_vars

\* the calls made so far are the first agents of the pipeline, in order, each
\* on the output of the one before it, and only the last may have failed
InOrder(p) ==
    /\ Len(p.ran) <= Len(p.agents)
    /\ \A k \in 1..Len(p.ran) :
          /\ p.ran[k].agent = p.agents[k]
          /\ p.ran[k].input =
                (IF k = 1 THEN p.input ELSE Output(p.agents[k - 1], p.ran[k - 1].input))
          /\ k < Len(p.ran) => p.ran[k].err = NoErr

\* C32: Sequential.Run runs the agents of the pipeline in order, each on the
\* output of the one before it, and returns the output of the last; when an
\* agent fails Run returns that agent's error and has run no later agent; an
\* empty pipeline returns ErrEmptyPipeline and runs nothing.
C32_SequentialRun ==
    LET p == procs[1]
    IN  p.op = "Sequential.Run" =>
          /\ InOrder(p)
          /\ p.pc = "loop" => \A k \in 1..Len(p.ran) : p.ran[k].err = NoErr
          /\ p.pc = "done" =>
                IF Len(p.agents) = 0
                THEN p.err = ErrEmptyPipeline /\ p.ran = <<>> /\ p.result = NilResult
                ELSE IF p.err = NoErr
                THEN /\ Len(p.ran) = Len(p.agents)
                     /\ p.ran[Len(p.ran)].err = NoErr
                     /\ p.result = Output(p.agents[Len(p.agents)], p.ran[Len(p.ran)].input)
                ELSE /\ p.ran # <<>>
                     /\ p.err = p.ran[Len(p.ran)].err
                     /\ p.err = RunError(p.agents[Len(p.ran)])
                     /\ p.result = NilResult

C32_Witness ==
    /\ procs[1].op = "Sequential.Run"
    /\ procs[1].pc = "done"
    /\ Len(procs[1].agents) = 3
    /\ Len(procs[1].ran) = 2
    /\ procs[1].err = RunError(procs[1].agents[2])

(***************************************************************************)
(* Parallel: procs[1] is the caller of Run or Race, procs[g + 1] the       *)
(* goroutine started for p.agents[g].                                      *)
(***************************************************************************)
ErrAllAgentsFailed == "all agents failed"

MaxParallel == 2

AgentLists == UNION {[1..n -> {"A", "B"}] : n \in 0..MaxParallel}

\* the caller: resultsCh (buffer and closed flag), the WaitGroup counter,
\* whether the context the goroutines select on is done, and the values
\* collected and returned
NoParallel ==
    [op |-> "", pc |-> "idle", agents |-> <<>>, input |-> NilResult,
     ch |-> <<>>, closed |-> FALSE, wg |-> 0, ctxDone |-> FALSE, i |-> 0,
     results |-> <<>>, errs |-> <<>>, result |-> NilResult, err |-> NoErr,
     lastErr |-> NoErr]

\* go func() { ... a.Run(ctx, input) ... }()
NewGoroutine(a) ==
    [pc |-> "run", agent |-> a, input |-> NilResult, runs |-> 0,
     result |-> NilResult, err |-> NoErr]

\* AgentResult{AgentID: a.ID(), Result: result, Error: err}
AgentResult(g) == [agent |-> g.agent, result |-> g.result, err |-> g.err]

Goroutines == 2..(MaxParallel + 1)

InitParallel == InitPattern(<<NoParallel>>)

\* p.Run(ctx, input) up to the range over resultsCh
ParallelRun(agents) ==
    /\ procs[1].pc \in {"idle", "done"}
    /\ \A g \in 2..Len(procs) : procs[g].pc = "done"
    /\ procs' =
         IF Len(agents) = 0
         THEN <<[NoParallel EXCEPT !.op = "Parallel.Run", !.pc = "done",
                                   !.input = UserInput]>>
         ELSE <<[NoParallel EXCEPT !.op = "Parallel.Run", !.pc = "range",
                                   !.agents = agents, !.input = UserInput,
                                   !.wg = Len(agents)]>>
              \o [g \in 1..Len(agents) |-> NewGoroutine(agents[g])]
    /\ UNCHANGED <<heap, maxHops, mu, ctxVars, regVars, meshVars>>

\* result, err := a.Run(ctx, input)
GoAgentRun(g, ok) ==
    /\ g <= Len(procs)
    /\ procs[g].pc = "run"
    /\ procs' = [procs EXCEPT ![g] =
           [@ EXCEPT !.pc = "send", !.input = procs[1].input, !.runs = @ + 1,
                     !.result = IF ok THEN Output(procs[g].agent, procs[1].input)
                                ELSE NilResult,
                     !.err = IF ok THEN NoErr ELSE RunError(procs[g].agent)]]
    /\ UNCHANGED <<heap, maxHops, mu, ctxVars, regVars, meshVars>>

\* resultsCh <- AgentResult{...}: the buffer holds len(p.agents) values, so
\* the send never blocks
GoSend(g) ==
    /\ g <= Len(procs)
    /\ procs[1].op = "Parallel.Run"
    /\ procs[g].pc = "send"
    /\ Len(procs[1].ch) < Len(procs[1].agents)
    /\ procs' = [procs EXCEPT ![g].pc = "exit",
                              ![1].ch = Append(@, AgentResult(procs[g]))]
    /\ UNCHANGED <<heap, maxHops, mu, ctxVars, regVars, meshVars>>

\* defer wg.Done()
GoWgDone(g) ==
    /\ g <= Len(procs)
    /\ procs[g].pc = "exit"
    /\ procs' = [procs EXCEPT ![g].pc = "done", ![1].wg = @ - 1]
    /\ UNCHANGED <<heap, maxHops, mu, ctxVars, regVars, meshVars>>

\* a closer that does not wait for the goroutines
WaitReturnsEarly(p) == TRUE

\* wg.Wait() returns
WaitReturns(p) == p.wg = 0

\* go func() { wg.Wait(); close(resultsCh) }()
WaitClose ==
    /\ procs[1].op = "Parallel.Run"
    /\ procs[1].pc = "range"
    /\ ~procs[1].closed
    /\ WaitReturns(procs[1])
    /\ procs' = [procs EXCEPT ![1].closed = TRUE]
    /\ UNCHANGED <<heap, maxHops, mu, ctxVars, regVars, meshVars>>

\* one iteration of  for ar := range resultsCh
RunReceive ==
    /\ procs[1].op = "Parallel.Run"
    /\ procs[1].pc = "range"
    /\ procs[1].ch # <<>>
    /\ LET ar == Head(procs[1].ch)
       IN  procs' = [procs EXCEPT
              ![1].ch = Tail(@),
              ![1].errs = IF ar.err # NoErr THEN Append(@, ar.err) ELSE @,
              ![1].results = IF ar.err # NoErr THEN @ ELSE Append(@, ar.result)]
    /\ UNCHANGED <<heap, maxHops, mu, ctxVars, regVars, meshVars>>

\* the range ends on the closed, drained channel: return results, errs
RunReturn ==
    /\ procs[1].op = "Parallel.Run"
    /\ procs[1].pc = "range"
    /\ procs[1].ch = <<>>
    /\ procs[1].closed
    /\ procs' = [procs EXCEPT ![1].pc = "done"]
    /\ UNCHANGED <<heap, maxHops, mu, ctxVars, regVars, meshVars>>

NextParallel ==
    \/ \E agents \in AgentLists : ParallelRun(agents)
    \/ \E g \in Goroutines, ok \in BOOLEAN : GoAgentRun(g, ok)
    \/ \E g \in Goroutines : GoSend(g)
    \/ \E g \in Goroutines : GoWgDone(g)
    \/ WaitClose
    \/ RunReceive
    \/ RunReturn

SpecParallel == InitParallel /\ [][NextParallel]_vars

Started == 2..Len(procs)

Succeeded == {g \in Started : procs[g].runs > 0 /\ procs[g].err = NoErr}

Failed == {g \in Started : procs[g].runs > 0 /\ procs[g].err # NoErr}

\* C40: Parallel.Run runs every agent exactly once, each on the caller's
\* input; when it returns every goroutine has finished, the results are the
\* outputs of the succeeding agents and the errors those of the failing
\* ones, so that their counts sum to the number of agents; an empty list
\* returns no result and no error.
C40_ParallelRun ==
    LET p == procs[1]
    IN  p.op = "Parallel.Run" =>
          /\ Len(procs) = 1 + Len(p.agents)
          /\ \A g \in Started :
                /\ procs[g].agent = p.agents[g - 1]
                /\ procs[g].runs <= 1
                /\ procs[g].runs = 1 => procs[g].input = p.input
          /\ p.pc = "done" =>
                /\ \A g \in Started : procs[g].pc = "done" /\ procs[g].runs = 1
                /\ Len(p.results) + Len(p.errs) = Len(p.agents)
                /\ Len(p.results) = Cardinality(Succeeded)
                /\ Len(p.errs) = Cardinality(Failed)
                /\ Range(p.results) = {procs[g].result : g \in Succeeded}
                /\ Range(p.errs) = {procs[g].err : g \in Failed}

C40_Witness ==
    /\ procs[1].op = "Parallel.Run"
    /\ procs[1].pc = "done"
    /\ Len(procs[1].agents) = 2
    /\ Len(procs[1].results) = 1
    /\ Len(procs[1].errs) = 1

(***************************************************************************)
(* Parallel.Race (Supervisor.raceFirst has the same body over the workers  *)
(* of a capability): the goroutines select between the send and the done   *)
(* context, the caller receives without a select.                          *)
(***************************************************************************)

\* p.Race(ctx, input) up to its receive loop
ParallelRace(agents) ==
    /\ procs[1].pc \in {"idle", "done"}
    /\ \A g \in 2..Len(procs) : procs[g].pc = "done"
    /\ procs' =
         IF Len(agents) = 0
         THEN <<[NoParallel EXCEPT !.op = "Parallel.Race", !.pc = "done",
                                   !.input = UserInput, !.err = ErrEmptyPipeline]>>
         ELSE <<[NoParallel EXCEPT !.op = "Parallel.Race", !.pc = "recv",
                                   !.agents = agents, !.input = UserInput]>>
              \o [g \in 1..Len(agents) |-> NewGoroutine(agents[g])]
    /\ UNCHANGED <<heap, maxHops, mu, ctxVars, regVars, meshVars>>

\* the context handed to Race is cancelled by its owner while Race waits;
\* the context derived from it by WithCancel is done with it
CancelContext ==
    /\ procs[1].op = "Parallel.Race"
    /\ procs[1].pc = "recv"
    /\ ~procs[1].ctxDone
    /\ procs' = [procs EXCEPT ![1].ctxDone = TRUE]
    /\ UNCHANGED <<heap, maxHops, mu, ctxVars, regVars, meshVars>>

\* select: case resultsCh <- AgentResult{...}
RaceSend(g) ==
    /\ g <= Len(procs)
    /\ procs[1].op = "Parallel.Race"
    /\ procs[g].pc = "send"
    /\ Len(procs[1].ch) < Len(procs[1].agents)
    /\ procs' = [procs EXCEPT ![g].pc = "done",
                              ![1].ch = Append(@, AgentResult(procs[g]))]
    /\ UNCHANGED <<heap, maxHops, mu, ctxVars, regVars, meshVars>>

\* select: case <-ctx.Done()
RaceCtxDone(g) ==
    /\ g <= Len(procs)
    /\ procs[1].op = "Parallel.Race"
    /\ procs[g].pc = "send"
    /\ procs[1].ctxDone
    /\ procs' = [procs EXCEPT ![g].pc = "done"]
    /\ UNCHANGED <<heap, maxHops, mu, ctxVars, regVars, meshVars>>

\* a loop that returns whatever arrives first
RaceIterFirst(p, ar) ==
    [p EXCEPT !.pc = "done", !.ctxDone = TRUE, !.result = ar.result]

\* one iteration of the receive loop on the value ar, with the return after
\* the loop when it was the last; every return runs the deferred cancel
RaceIter(p, ar) ==
    IF ar.err = NoErr
    THEN [p EXCEPT !.pc = "done", !.ctxDone = TRUE, !.result = ar.result]
    ELSE IF p.i + 1 < Len(p.agents)
    THEN [p EXCEPT !.i = @ + 1, !.lastErr = ar.err]
    ELSE [p EXCEPT !.i = @ + 1, !.lastErr = ar.err, !.pc = "done",
                   !.ctxDone = TRUE, !.err = ar.err]

\* ar := <-resultsCh
RaceReceive ==
    /\ procs[1].op = "Parallel.Race"
    /\ procs[1].pc = "recv"
    /\ procs[1].ch # <<>>
    /\ procs' = [procs EXCEPT
          ![1] = RaceIter([procs[1] EXCEPT !.ch = Tail(@)], Head(procs[1].ch))]
    /\ UNCHANGED <<heap, maxHops, mu, ctxVars, regVars, meshVars>>

NextRace ==
    \/ \E agents \in AgentLists : ParallelRace(agents)
    \/ \E g \in Goroutines, ok \in BOOLEAN : GoAgentRun(g, ok)
    \/ \E g \in Goroutines : RaceSend(g)
    \/ \E g \in Goroutines : RaceCtxDone(g)
    \/ CancelContext
    \/ RaceReceive

SpecRace == InitParallel /\ [][NextRace]_vars

RaceStuck ==
    /\ procs[1].op = "Parallel.Race"
    /\ procs[1].pc = "recv"
    /\ procs[1].ch = <<>>
    /\ \A g \in Started : procs[g].pc = "done"

\* C39: Race returns whenever every agent's Run returns, also when the
\* caller's context is cancelled during the race: it is never left waiting
\* for a value that no goroutine will send.
C39_RaceReturns == ~RaceStuck

(***************************************************************************)
(* ReActAgent: a text is here a sequence of lines, a line a label and the  *)
(* text after its colon.                                                   *)
(***************************************************************************)
ErrMaxIterationsReached == "maximum iterations reached"

MaxIterations == 4

Line(label, text) == [label |-> label, text |-> text]

\* what the wrapped agent may answer: a final answer, a thought with an
\* action, an action line with nothing after the colon, an action followed
\* by an answer, an action followed by an empty action line, no line at all
ReActOutputs ==
    {<<Line("Answer", "42")>>,
     <<Line("Thought", "I need more info."), Line("Action", "search")>>,
     <<Line("Thought", "done"), Line("Action", "")>>,
     <<Line("Action", "search"), Line("Answer", "42")>>,
     <<Line("Action", "lookup"), Line("Action", "")>>,
     <<>>}

\* (?i)^Thought:\s*(.+)$ and (?i)^Action:\s*(.+)$ on every trimmed line: the
\* last line of each label with a non-empty text wins
RECURSIVE ParseThoughtAction(_)
ParseThoughtAction(response) ==
    IF response = <<>> THEN [thought |-> "", action |-> ""]
    ELSE LET n == Len(response)
             line == response[n]
             before == ParseThoughtAction(SubSeq(response, 1, n - 1))
         IN  [thought |-> IF line.label = "Thought" /\ line.text # ""
                          THEN line.text ELSE before.thought,
              action |-> IF line.label = "Action" /\ line.text # ""
                         THEN line.text ELSE before.action]

NoReAct ==
    [op |-> "", pc |-> "idle", maxIterations |-> 0, iterations |-> 0,
     input |-> <<>>, currentInput |-> <<>>, ran |-> <<>>, lastResult |-> NilResult,
     result |-> NilResult, err |-> NoErr]

InitReAct == InitPattern(<<NoReAct>>)

\* a loop that allows one iteration more
ReActContinuesOnceMore(p) == p.iterations <= p.maxIterations

\* for iterations < r.maxIterations
ReActContinues(p) == p.iterations < p.maxIterations

\* the return after the loop
ReActAfterLoop(p) ==
    [p EXCEPT !.pc = "done", !.result = p.lastResult, !.err = ErrMaxIterationsReached]

\* one iteration on the answer of r.agent.Run(ctx, currentInput)
ReActIter(p, ok, output) ==
    LET q == [p EXCEPT !.iterations = @ + 1,
                       !.ran = Append(@, [input |-> p.currentInput, ok |-> ok,
                                          output |-> IF ok THEN output ELSE NilResult])]
    IN  IF ~ok
        THEN [q EXCEPT !.pc = "done", !.result = NilResult, !.err = RunError("A")]
        ELSE IF ParseThoughtAction(output).action = ""
        THEN [q EXCEPT !.pc = "done", !.lastResult = output, !.result = output]
        ELSE LET r == [q EXCEPT !.lastResult = output, !.currentInput = output]
             IN  IF ReActContinues(r) THEN r ELSE ReActAfterLoop(r)

\* NewReActAgent(a, WithMaxIterations(n)).Run(ctx, input) up to the first
\* iteration
ReActRun(n) ==
    /\ procs[1].pc # "loop"
    /\ LET p == [NoReAct EXCEPT !.op = "ReActAgent.Run", !.pc = "loop",
                                !.maxIterations = n, !.input = UserInput,
                                !.currentInput = UserInput]
       IN  procs' = [procs EXCEPT ![1] =
                        IF ReActContinues(p) THEN p ELSE ReActAfterLoop(p)]
    /\ UNCHANGED <<heap, maxHops, mu, ctxVars, regVars, meshVars>>

\* result, err := r.agent.Run(ctx, currentInput) and the rest of the
\* iteration
ReActAgentRun(ok, output) ==
    /\ procs[1].pc = "loop"
    /\ procs' = [procs EXCEPT ![1] = ReActIter(procs[1], ok, output)]
    /\ UNCHANGED <<heap, maxHops, mu, ctxVars, regVars, meshVars>>

NextReAct ==
    \/ \E n \in 0..MaxIterations : ReActRun(n)
    \/ \E ok \in BOOLEAN, output \in ReActOutputs : ReActAgentRun(ok, output)

SpecReAct == InitReAct /\ [][NextReAct]_vars

\* the output of a successful iteration holds an action line that names an
\* action
HasAction(it) ==
    it.ok /\ \E k \in 1..Len(it.output) :
                it.output[k].label = "Action" /\ it.output[k].text # ""

\* C34: ReActAgent.Run calls the wrapped agent at most maxIterations times;
\* a Run that returns without error returns the output of its first
\* iteration without an Action; a Run whose every iteration had an Action
\* made exactly maxIterations iterations and returns
\* ErrMaxIterationsReached.
C34_IterationLimit ==
    LET p == procs[1]
        n == Len(p.ran)
    IN  p.op = "ReActAgent.Run" =>
          /\ n <= p.maxIterations
          /\ \A k \in 1..(n - 1) : HasAction(p.ran[k])
          /\ \A k \in 2..n : p.ran[k].input = p.ran[k - 1].output
          /\ n > 0 => p.ran[1].input = p.input
          /\ (p.pc = "done" /\ n > 0 /\ p.ran[n].ok /\ ~HasAction(p.ran[n])) =>
                p.err = NoErr /\ p.result = p.ran[n].output
          /\ (p.pc = "done" /\ p.err = NoErr) =>
                n > 0 /\ p.ran[n].ok /\ ~HasAction(p.ran[n])
          /\ (p.pc = "done" /\ \A k \in 1..n : HasAction(p.ran[k])) =>
                n = p.maxIterations /\ p.err = ErrMaxIterationsReached
          /\ p.pc = "loop" => \A k \in 1..n : HasAction(p.ran[k])

C34_Witness ==
    /\ procs[1].op = "ReActAgent.Run"
    /\ procs[1].pc = "done"
    /\ procs[1].maxIterations = 3
    /\ Len(procs[1].ran) = 3
    /\ \A k \in 1..3 : HasAction(procs[1].ran[k])
    /\ procs[1].err = ErrMaxIterationsReached

(***************************************************************************)
(* Supervisor with the round-robin strategy: procs[1] is the supervisor,   *)
(* lastOp the last call made on it.                                        *)
(***************************************************************************)
ErrNoWorkerAvailable == "no worker available for capability"

\* panic: runtime error: index out of range
IndexOutOfRange == "panic: index out of range"

WorkerPool == Agents \cup {"y1"}

\* the worker lists a Delegate can see
WorkerLists == UNION {Orders(S) : S \in SUBSET WorkerPool}

\* NewSupervisor(): no worker, StrategyRoundRobin, rrIndex an empty map (a
\* missing key reads as 0)
NewSupervisor ==
    [workers |-> NewLocal, healthy |-> {}, strategy |-> "round_robin",
     rrIndex |-> [cap \in Caps |-> 0]]

InitSupervisor == InitPattern(<<NewSupervisor>>)

\* s.workers[worker.ID()] = worker; s.healthy[worker.ID()] = true
AddWorker(worker) ==
    /\ procs' = [procs EXCEPT ![1].workers = LocalRegister(@, worker),
                              ![1].healthy = @ \cup {AgentID(worker)}]
    /\ lastOp' = [NoOp EXCEPT !.op = "AddWorker", !.id = AgentID(worker)]
    /\ UNCHANGED <<heap, maxHops, mu, ctxVars, latest, meshVars>>

\* delete(s.workers, workerID); delete(s.healthy, workerID)
RemoveWorker(workerID) ==
    /\ procs' = [procs EXCEPT ![1].workers = LocalDeregister(@, workerID),
                              ![1].healthy = @ \ {workerID}]
    /\ lastOp' = [NoOp EXCEPT !.op = "RemoveWorker", !.id = workerID]
    /\ UNCHANGED <<heap, maxHops, mu, ctxVars, latest, meshVars>>

\* the workers a range over s.workers can collect for cap, in every order
WorkersFor(s, cap) ==
    Orders({w \in Registered(s.workers) : cap \in Range(Provides(w))})

\* idx := s.rrIndex[cap]; s.rrIndex[cap] = (idx + 1) % len(workers);
\* return workers[idx].Run(ctx, input)
RoundRobin(s, cap, workers) ==
    LET idx == s.rrIndex[cap]
    IN  [rrIndex |-> [s.rrIndex EXCEPT ![cap] = (idx + 1) % Len(workers)],
         idx |-> idx,
         agent |-> IF idx < Len(workers) THEN workers[idx + 1] ELSE NilAgent,
         err |-> IF idx < Len(workers) THEN NoErr ELSE IndexOutOfRange]

\* s.Delegate(ctx, cap, input) with the round-robin strategy; the worker's
\* Run succeeds
Delegate(cap, workers) ==
    /\ workers \in WorkersFor(procs[1], cap)
    /\ IF Len(workers) = 0
       THEN /\ lastOp' = [NoOp EXCEPT !.op = "Delegate", !.cap = cap,
                                      !.err = ErrNoWorkerAvailable]
            /\ procs' = procs
       ELSE LET r == RoundRobin(procs[1], cap, workers)
            IN  /\ procs' = [procs EXCEPT ![1].rrIndex = r.rrIndex]
                /\ lastOp' = [NoOp EXCEPT !.op = "Delegate", !.cap = cap,
                                          !.args = workers, !.agent = r.agent,
                                          !.err = r.err]
    /\ UNCHANGED <<heap, maxHops, mu, ctxVars, latest, meshVars>>

NextSupervisor ==
    \/ \E worker \in WorkerPool : AddWorker(worker)
    \/ \E workerID \in {AgentID(w) : w \in WorkerPool} : RemoveWorker(workerID)
    \/ \E cap \in Caps, workers \in WorkerLists : Delegate(cap, workers)

SpecSupervisor == InitSupervisor /\ [][NextSupervisor]_vars

\* C38: after any sequence of AddWorker, RemoveWorker and round-robin
\* Delegate calls, the index stored for a capability that has a worker
\* points into the list of its workers, and a Delegate for such a
\* capability runs one of the workers of that list.
C38_RoundRobinInBounds ==
    /\ \A cap \in Caps :
          \A workers \in WorkersFor(procs[1], cap) :
              Len(workers) > 0 => procs[1].rrIndex[cap] < Len(workers)
    /\ (lastOp.op = "Delegate" /\ lastOp.err # ErrNoWorkerAvailable) =>
          /\ lastOp.err = NoErr
          /\ lastOp.agent \in Range(lastOp.args)

\* the agent holds a delegation tool for cap
HasToolFor(a, cap) == \E i \in 1..Len(tools[a]) : tools[a][i].capability = cap

\* C36: an agent that runs because another agent delegated to it holds a
\* delegation tool for each of its own needs that has a registered
\* provider, whether or not it was prepared through the Mesh before, so
\* that it can delegate further.
C36_DelegateIsPrepared ==
    \A i \in 2..Len(stack) :
        \A k \in 1..Len(Needs(stack[i].agent)) :
            Providers(Registered(registry), Needs(stack[i].agent)[k]) # {}
                => HasToolFor(stack[i].agent, Needs(stack[i].agent)[k])

(***************************************************************************)
(* The agent variants: a built *agent.Agent, and the wrappers of           *)
(* pkg/middleware and pkg/patterns, which hold an agent and forward ID,    *)
(* Needs and Tools to it.                                                  *)
(***************************************************************************)
Variants == [kind : {"agent", "tracing", "react"}, inner : Agents]

\* TracingAgent.Needs, ReActAgent.Needs: return the wrapped agent's
VariantNeeds(v) == Needs(v.inner)

\* TracingAgent.Tools, ReActAgent.Tools: return the wrapped agent's
VariantTools(ts, v) == ts[v.inner]

\* agentImpl, ok := a.(*agent.Agent)
IsAgentImpl(v) == v.kind = "agent"

\* Mesh.PrepareAgent(ctx, a) on any core.Agent
PrepareVariant(v) ==
    /\ Idle
    /\ \E found \in Found :
         /\ Len(Prepared(v.inner, found)[v.inner]) <= MaxTools
         /\ tools' = IF IsAgentImpl(v) THEN Prepared(v.inner, found) ELSE tools
         /\ lastOp' = [NoOp EXCEPT !.op = "PrepareAgent", !.args = v,
                                   !.needs = VariantNeeds(v),
                                   !.result = InjectTools(VariantNeeds(v), found)]
    /\ outcome' = NoOutcome
    /\ UNCHANGED <<heap, maxHops, concVars, ctxVars, latest, registry, balancer,
                   counter, stack, delivered>>

NextVariants ==
    \/ \E agents \in Batches : Register(agents)
    \/ \E a \in Agents : Deregister(a)
    \/ \E v \in Variants : PrepareVariant(v)

SpecVariants == InitTopology /\ [][NextVariants]_vars

\* C37: when PrepareAgent(a) has returned without error, a.Tools() holds a
\* delegation tool for every capability of a.Needs() that has a registered
\* provider, for a built agent, a middleware-wrapped agent and a
\* pattern-composed agent alike.
C37_EveryVariantPrepared ==
    [][\A v \in Variants :
          PrepareVariant(v) =>
              \A k \in 1..Len(VariantNeeds(v)) :
                  Providers(Registered(registry'), VariantNeeds(v)[k]) # {} =>
                      \E i \in 1..Len(VariantTools(tools', v)) :
                          ToolName(VariantTools(tools', v)[i].capability)
                              = ToolName(VariantNeeds(v)[k])]_vars

====
